---------------------------- MODULE Spec2Model ----------------------------
(***************************************************************************)
(* Model of the pico-mfm-floppy file stack: the file API (src/src/f12.c),   *)
(* the FAT12 engine (src/src/fat12.c), the sector cache (src/src/lru.c) and *)
(* the drive seen through the f12_io_t callbacks.                           *)
(*                                                                          *)
(* Byte buffers (sectors, directory entries, file contents) are modelled    *)
(* as sparse functions from byte offset to a non-zero byte value; an        *)
(* offset outside the domain holds 0.  The media is a sparse function from  *)
(* LBA to such a sector; an absent LBA is an all-zero sector.  All sizes    *)
(* and the on-disk layout are the real ones (512-byte sectors, 18 sectors   *)
(* per track, 2880 sectors).                                                *)
(***************************************************************************)
EXTENDS Integers, Sequences, FiniteSets, TLC

RECURSIVE Invoke(_, _)

(***************************************************************************)
(* Program constants                                                        *)
(***************************************************************************)
SECTOR_SIZE == 512

SECTORS_PER_TRACK == 18

FLOPPY_TRACKS == 80

VDISK_SIDES == 2

FAT12_DIR_ENTRY_SIZE == 32

FAT12_WRITE_BATCH_MAX == 36

F12_MAX_OPEN_FILES == 10

F12_CACHE_SIZE == 36

FAT12_ATTR_VOLUME_ID == 8

FAT12_ATTR_DIRECTORY == 16

FAT12_ATTR_ARCHIVE == 32

FAT12_ATTR_LFN == 15

(***************************************************************************)
(* Sparse byte buffers                                                      *)
(***************************************************************************)
\* The all-zero buffer.
Zero == [k \in {} |-> 0]

\* buf[i]
Get(buf, i) == IF i \in DOMAIN buf THEN buf[i] ELSE 0

\* buf[i] = v   (v is truncated to a byte, as a uint8_t store)
Put(buf, i, v) ==
  LET b == v % 256
      D == IF b = 0 THEN DOMAIN buf \ {i} ELSE DOMAIN buf \cup {i}
  IN [k \in D |-> IF k = i THEN b ELSE buf[k]]

\* memcpy(dst + off, src, n): bytes 0..n-1 of src replace bytes off..off+n-1 of dst
Splice(dst, off, src, n) ==
  LET keep == {k \in DOMAIN dst : k < off \/ k >= off + n}
      new  == {k + off : k \in {j \in DOMAIN src : j < n}}
  IN [k \in keep \cup new |-> IF k \in new THEN src[k - off] ELSE dst[k]]

\* the n bytes of src that start at off, re-based to offset 0
Slice(src, off, n) ==
  LET D == {k - off : k \in {j \in DOMAIN src : j >= off /\ j < off + n}}
  IN [k \in D |-> src[k + off]]

\* memcmp(a + off, b, n) == 0
SameBytes(a, off, b, n) == \A k \in 0..(n - 1) : Get(a, off + k) = Get(b, k)

\* a buffer given as a set of <<offset, value>> pairs
Blob(pairs) ==
  LET nz == {p \in pairs : p[2] % 256 # 0}
  IN [k \in {p[1] : p \in nz} |-> (CHOOSE p \in nz : p[1] = k)[2] % 256]

\* a buffer holding the bytes of a sequence, first element at offset 0
BlobOfSeq(s) == Blob({<<i - 1, s[i]>> : i \in 1..Len(s)})

Min(a, b) == IF a < b THEN a ELSE b

(***************************************************************************)
(* Error codes                                                              *)
(***************************************************************************)
F12_OK == "F12_OK"

F12_ERR_IO == "F12_ERR_IO"

F12_ERR_NOT_FOUND == "F12_ERR_NOT_FOUND"

F12_ERR_FULL == "F12_ERR_FULL"

F12_ERR_TOO_MANY == "F12_ERR_TOO_MANY"

F12_ERR_INVALID == "F12_ERR_INVALID"

F12_ERR_IS_DIR == "F12_ERR_IS_DIR"

F12_ERR_NOT_MOUNTED == "F12_ERR_NOT_MOUNTED"

F12_ERR_EOF == "F12_ERR_EOF"

F12_ERR_DISK_CHANGED == "F12_ERR_DISK_CHANGED"

F12_ERR_WRITE_PROTECTED == "F12_ERR_WRITE_PROTECTED"

F12_ERR_BAD_HANDLE == "F12_ERR_BAD_HANDLE"

FAT12_OK == "FAT12_OK"

FAT12_ERR_READ == "FAT12_ERR_READ"

FAT12_ERR_WRITE == "FAT12_ERR_WRITE"

FAT12_ERR_INVALID == "FAT12_ERR_INVALID"

FAT12_ERR_NOT_FOUND == "FAT12_ERR_NOT_FOUND"

FAT12_ERR_EOF == "FAT12_ERR_EOF"

FAT12_ERR_FULL == "FAT12_ERR_FULL"

F12_MODE_CLOSED == "F12_MODE_CLOSED"

F12_MODE_READ == "F12_MODE_READ"

F12_MODE_WRITE == "F12_MODE_WRITE"

fat12_to_f12_err(err) ==
  CASE err = FAT12_OK -> F12_OK
    [] err = FAT12_ERR_READ -> F12_ERR_IO
    [] err = FAT12_ERR_WRITE -> F12_ERR_IO
    [] err = FAT12_ERR_INVALID -> F12_ERR_INVALID
    [] err = FAT12_ERR_NOT_FOUND -> F12_ERR_NOT_FOUND
    [] err = FAT12_ERR_EOF -> F12_ERR_EOF
    [] err = FAT12_ERR_FULL -> F12_ERR_FULL
    [] OTHER -> F12_ERR_IO

(***************************************************************************)
(* The machine state threaded through the handlers                          *)
(*   m.media   sparse LBA -> sector of the disk in the drive                *)
(*   m.dc      the drive's latched disk-change signal                       *)
(*   m.wp      the drive's write-protect signal                             *)
(*   m.fs      the f12_t                                                    *)
(*   m.reads   sector reads issued to the drive by the running call         *)
(*   m.writes  track writes issued to the drive by the running call         *)
(***************************************************************************)

\* ---- drive (f12_io_t callbacks) ----

vdisk_lba(track, side, sector_n) ==
  (track * VDISK_SIDES + side) * SECTORS_PER_TRACK + (sector_n - 1)

VDISK_TOTAL_SECTORS == FLOPPY_TRACKS * VDISK_SIDES * SECTORS_PER_TRACK

MediaSector(media, lba) == IF lba \in DOMAIN media THEN media[lba] ELSE Zero

\* io.read: one sector by (track, side, sector_n)
io_read(m, track, side, sector_n) ==
  LET lba == vdisk_lba(track, side, sector_n)
  IN IF lba < 0 \/ lba >= VDISK_TOTAL_SECTORS
        \/ sector_n < 1 \/ sector_n > SECTORS_PER_TRACK \/ side >= VDISK_SIDES
     THEN [m |-> m, ok |-> FALSE, data |-> Zero, valid |-> FALSE]
     ELSE [m |-> [m EXCEPT !.reads = @ + 1], ok |-> TRUE,
           data |-> MediaSector(m.media, lba), valid |-> TRUE]

\* io.disk_changed: reports the latched signal and clears it
io_disk_changed(m) == [m |-> [m EXCEPT !.dc = FALSE], changed |-> m.dc]

\* io.write_protected
io_write_protected(m) == m.wp

\* the sectors of a track that the caller did not stage are read from the media
CompleteTrack(media, t) ==
  [t EXCEPT !.sectors = [i \in 0..(SECTORS_PER_TRACK - 1) |->
      IF t.sectors[i].valid THEN t.sectors[i]
      ELSE [data |-> MediaSector(media, vdisk_lba(t.track, t.side, i + 1)),
            valid |-> TRUE, sector_n |-> i + 1]]]

\* the loop that copies each sector of the track into the image, as one assignment
WriteSectors(media, t) ==
  LET first == vdisk_lba(t.track, t.side, 1)
      lbas == first..(first + SECTORS_PER_TRACK - 1)
      set == {k \in lbas : t.sectors[k - first].data # Zero}
  IN [k \in (DOMAIN media \ lbas) \cup set |->
        IF k \in set THEN t.sectors[k - first].data ELSE media[k]]

\* io.write: one whole track; refused when the drive reports write-protected.  m.fails
\* tells, for the track writes to come, which ones the drive gives up without having
\* changed the media (floppy_io_write returns false); past its end every write succeeds.
io_write(m, t) ==
  IF m.wp \/ t.track >= FLOPPY_TRACKS \/ t.side >= VDISK_SIDES
  THEN [m |-> [m EXCEPT !.writes = @ + 1], ok |-> FALSE, track |-> t]
  ELSE IF m.fails # <<>> /\ Head(m.fails)
    THEN [m |-> [m EXCEPT !.writes = @ + 1, !.fails = Tail(@)], ok |-> FALSE, track |-> t]
  ELSE LET full == CompleteTrack(m.media, t)
       IN [m |-> [m EXCEPT !.media = WriteSectors(m.media, full),
                           !.writes = @ + 1,
                           !.fails = IF @ = <<>> THEN @ ELSE Tail(@)],
           ok |-> TRUE, track |-> full]

\* ---- the sector cache as f12.c uses it: the resident entries of lru.c in recency
\* order, most recently used first ----

lru_key(track, side, sector_n) == track * 65536 + side * 256 + sector_n

cache_init == [live |-> TRUE, ents |-> <<>>]

NoCache == [live |-> FALSE, ents |-> <<>>]

cache_find(ents, key) ==
  IF \E i \in 1..Len(ents) : ents[i].key = key
  THEN CHOOSE i \in 1..Len(ents) : ents[i].key = key
  ELSE 0

RemoveAt(s, i) == SubSeq(s, 1, i - 1) \o SubSeq(s, i + 1, Len(s))

\* cache_get: [cache, hit, data]
cache_get(cache, key) ==
  LET i == cache_find(cache.ents, key)
  IN IF ~cache.live \/ i = 0
     THEN [cache |-> cache, hit |-> FALSE, data |-> Zero]
     ELSE [cache |-> [cache EXCEPT !.ents = <<cache.ents[i]>> \o RemoveAt(cache.ents, i)],
           hit |-> TRUE, data |-> cache.ents[i].data]

cache_set(cache, key, data) ==
  LET i == cache_find(cache.ents, key)
      e == [key |-> key, data |-> data]
  IN IF ~cache.live THEN cache
     ELSE IF i # 0
       THEN [cache EXCEPT !.ents = <<e>> \o RemoveAt(cache.ents, i)]
     ELSE IF Len(cache.ents) < F12_CACHE_SIZE
       THEN [cache EXCEPT !.ents = <<e>> \o cache.ents]
     ELSE [cache EXCEPT !.ents = <<e>> \o SubSeq(cache.ents, 1, Len(cache.ents) - 1)]

cache_clear(cache) == [cache EXCEPT !.ents = <<>>]

\* ---- f12.c internal helpers ----

f12_set_error(m, err) == [m EXCEPT !.fs.last_error = err]

\* a disk check that forgets to invalidate the open files
CheckDiskKeepsFiles(m) ==
  IF ~m.fs.mounted THEN [m |-> f12_set_error(m, F12_ERR_NOT_MOUNTED), err |-> F12_ERR_NOT_MOUNTED]
  ELSE LET d == io_disk_changed(m)
       IN IF d.changed
          THEN [m |-> f12_set_error([d.m EXCEPT !.fs.cache = cache_clear(@),
                                                !.fs.mounted = FALSE],
                                    F12_ERR_DISK_CHANGED),
                err |-> F12_ERR_DISK_CHANGED]
          ELSE [m |-> d.m, err |-> F12_OK]

\* a disk check that does not look at the mount flag
CheckDiskIgnoresMount(m) ==
  LET d == io_disk_changed(m)
  IN IF d.changed
     THEN [m |-> f12_set_error([d.m EXCEPT !.fs.cache = cache_clear(@),
                                           !.fs.files = [i \in DOMAIN @ |->
                                              [@[i] EXCEPT !.mode = F12_MODE_CLOSED]],
                                           !.fs.mounted = FALSE],
                               F12_ERR_DISK_CHANGED),
           err |-> F12_ERR_DISK_CHANGED]
     ELSE [m |-> d.m, err |-> F12_OK]

\* f12_check_disk: [m, err]
f12_check_disk(m) ==
  IF ~m.fs.mounted
  THEN [m |-> f12_set_error(m, F12_ERR_NOT_MOUNTED), err |-> F12_ERR_NOT_MOUNTED]
  ELSE LET r == io_disk_changed(m)
       IN IF r.changed
          THEN [m |-> f12_set_error(
                        [r.m EXCEPT !.fs.cache = cache_clear(@),
                                    !.fs.files = [i \in DOMAIN @ |->
                                                    [@[i] EXCEPT !.mode = F12_MODE_CLOSED]],
                                    !.fs.mounted = FALSE],
                        F12_ERR_DISK_CHANGED),
                err |-> F12_ERR_DISK_CHANGED]
          ELSE [m |-> r.m, err |-> F12_OK]

\* f12_check_writable: [m, err]
f12_check_writable(m) ==
  LET r == Invoke("f12_check_disk", <<m>>)
  IN IF r.err # F12_OK THEN r
     ELSE IF io_write_protected(r.m)
       THEN [m |-> f12_set_error(r.m, F12_ERR_WRITE_PROTECTED), err |-> F12_ERR_WRITE_PROTECTED]
     ELSE [m |-> r.m, err |-> F12_OK]

\* f12_cached_read: [m, ok, data]
f12_cached_read(m, track, side, sector_n) ==
  LET chk == IF m.fs.mounted THEN Invoke("f12_check_disk", <<m>>) ELSE [m |-> m, err |-> F12_OK]
  IN IF chk.err # F12_OK THEN [m |-> chk.m, ok |-> FALSE, data |-> Zero]
     ELSE
       LET key == lru_key(track, side, sector_n)
           g == cache_get(chk.m.fs.cache, key)
       IN IF g.hit
          THEN [m |-> [chk.m EXCEPT !.fs.cache = g.cache], ok |-> TRUE, data |-> g.data]
          ELSE LET r == io_read(chk.m, track, side, sector_n)
               IN IF ~r.ok THEN [m |-> r.m, ok |-> FALSE, data |-> Zero]
                  ELSE [m |-> IF r.valid
                              THEN [r.m EXCEPT !.fs.cache = cache_set(@, key, r.data)]
                              ELSE r.m,
                        ok |-> TRUE, data |-> r.data]

\* the loop of cache_set over the valid sectors of a written track, first sector first:
\* the track's sectors end up in front, the last one set first, and the entries that
\* fall off the end are the least recently used ones
CacheTrack(cache, t) ==
  LET valid == {i \in 0..(SECTORS_PER_TRACK - 1) : t.sectors[i].valid}
      keys == {lru_key(t.track, t.side, t.sectors[i].sector_n) : i \in valid}
      Entry(i) == [key |-> lru_key(t.track, t.side, t.sectors[i].sector_n),
                   data |-> t.sectors[i].data]
      Older(e) == e.key \notin keys
      new == [k \in 1..Cardinality(valid) |->
                Entry(CHOOSE i \in valid : Cardinality({j \in valid : j > i}) = k - 1)]
      all == new \o SelectSeq(cache.ents, Older)
  IN IF ~cache.live THEN cache
     ELSE [cache EXCEPT !.ents = SubSeq(all, 1, Min(Len(all), F12_CACHE_SIZE))]

\* a track write that skips the writable check
CachedWriteUnchecked(m, t) ==
  LET w == io_write(m, t)
  IN IF ~w.ok THEN [m |-> w.m, ok |-> FALSE]
     ELSE [m |-> [w.m EXCEPT !.fs.cache = CacheTrack(@, w.track)], ok |-> TRUE]

\* f12_cached_write: [m, ok]
f12_cached_write(m, t) ==
  LET chk == IF m.fs.mounted THEN Invoke("f12_check_writable", <<m>>) ELSE [m |-> m, err |-> F12_OK]
  IN IF chk.err # F12_OK THEN [m |-> chk.m, ok |-> FALSE]
     ELSE LET w == io_write(chk.m, t)
          IN IF ~w.ok THEN [m |-> w.m, ok |-> FALSE]
             ELSE [m |-> [w.m EXCEPT !.fs.cache = CacheTrack(@, w.track)], ok |-> TRUE]


(***************************************************************************)
(* FAT12 engine (fat12.c)                                                   *)
(***************************************************************************)

LE16(buf, off) == Get(buf, off) + 256 * Get(buf, off + 1)

LE32(buf, off) == Get(buf, off) + 256 * Get(buf, off + 1)
                  + 65536 * Get(buf, off + 2) + 16777216 * Get(buf, off + 3)
PutLE16(buf, off, v) == Put(Put(buf, off, v % 256), off + 1, (v \div 256) % 256)

PutLE32(buf, off, v) ==
  Put(Put(PutLE16(buf, off, v % 65536), off + 2, (v \div 65536) % 256),
      off + 3, (v \div 16777216) % 256)

ZeroFat ==
  [bpb |-> [bytes_per_sector |-> 0, sectors_per_cluster |-> 0, reserved_sectors |-> 0,
            num_fats |-> 0, root_entries |-> 0, total_sectors |-> 0,
            media_descriptor |-> 0, sectors_per_fat |-> 0, sectors_per_track |-> 0,
            num_heads |-> 0, hidden_sectors |-> 0],
   fat_start_sector |-> 0, root_dir_start_sector |-> 0, root_dir_sectors |-> 0,
   data_start_sector |-> 0, total_clusters |-> 0]

\* the BPB fields of a boot sector
ParseBpb(b) ==
  [bytes_per_sector |-> LE16(b, 11), sectors_per_cluster |-> Get(b, 13),
   reserved_sectors |-> LE16(b, 14), num_fats |-> Get(b, 16),
   root_entries |-> LE16(b, 17), total_sectors |-> LE16(b, 19),
   media_descriptor |-> Get(b, 21), sectors_per_fat |-> LE16(b, 22),
   sectors_per_track |-> LE16(b, 24), num_heads |-> LE16(b, 26),
   hidden_sectors |-> LE32(b, 28)]

\* the layout fat12_init derives from a BPB (uint16_t fields)
Layout(bpb) ==
  LET fat_start == bpb.reserved_sectors
      root_start == (fat_start + bpb.num_fats * bpb.sectors_per_fat) % 65536
      root_secs == ((bpb.root_entries * FAT12_DIR_ENTRY_SIZE + SECTOR_SIZE - 1)
                    \div SECTOR_SIZE) % 65536
      data_start == (root_start + root_secs) % 65536
  IN [bpb |-> bpb, fat_start_sector |-> fat_start, root_dir_start_sector |-> root_start,
      root_dir_sectors |-> root_secs, data_start_sector |-> data_start,
      total_clusters |->
        (IF bpb.total_sectors >= data_start
         THEN (bpb.total_sectors - data_start) \div bpb.sectors_per_cluster
         ELSE 0 - ((data_start - bpb.total_sectors) \div bpb.sectors_per_cluster)) % 65536]

\* fat12_init over the cached read callback: [m, err]; sets m.fs.fat
fat12_init(m) ==
  LET r == Invoke("f12_cached_read", <<[m EXCEPT !.fs.fat = ZeroFat], 0, 0, 1>>)
  IN IF ~r.ok THEN [m |-> r.m, err |-> FAT12_ERR_READ]
     ELSE IF Get(r.data, 510) # 85 \/ Get(r.data, 511) # 170
       THEN [m |-> r.m, err |-> FAT12_ERR_INVALID]
     ELSE LET bpb == ParseBpb(r.data)
          IN IF bpb.bytes_per_sector # SECTOR_SIZE
                \/ bpb.sectors_per_cluster = 0 \/ bpb.sectors_per_cluster > 64
                \/ bpb.num_fats = 0 \/ bpb.sectors_per_track = 0 \/ bpb.num_heads = 0
             THEN [m |-> [r.m EXCEPT !.fs.fat.bpb = bpb], err |-> FAT12_ERR_INVALID]
             ELSE [m |-> [r.m EXCEPT !.fs.fat = Layout(bpb)], err |-> FAT12_OK]

\* fat12_lba_to_chs (uint8_t results)
fat12_lba_to_chs(fat, lba) ==
  LET per_cyl == fat.bpb.num_heads * fat.bpb.sectors_per_track
      temp == lba % per_cyl
  IN [c |-> (lba \div per_cyl) % 256,
      h |-> (temp \div fat.bpb.sectors_per_track) % 256,
      s |-> ((temp % fat.bpb.sectors_per_track) + 1) % 256]

\* fat12_read_sector: [m, ok, data]
fat12_read_sector(m, lba) ==
  LET chs == fat12_lba_to_chs(m.fs.fat, lba)
  IN Invoke("f12_cached_read", <<m, chs.c, chs.h, chs.s>>)

\* fat12_get_entry: [m, err, next]
fat12_get_entry(m, cluster) ==
  LET fat == m.fs.fat
      max_cluster == fat.total_clusters + 2
      fat_offset == cluster + (cluster \div 2)
      fat_size_bytes == fat.bpb.sectors_per_fat * SECTOR_SIZE
      fat_sector == (fat.fat_start_sector + (fat_offset \div SECTOR_SIZE)) % 65536
      entry_offset == fat_offset % SECTOR_SIZE
      Extract(value) == IF cluster % 2 = 1 THEN value \div 16 ELSE value % 4096
  IN IF cluster >= max_cluster /\ cluster < 4080
     THEN [m |-> m, err |-> FAT12_ERR_INVALID, next |-> 0]
     ELSE IF fat_offset + 1 >= fat_size_bytes
       THEN [m |-> m, err |-> FAT12_ERR_INVALID, next |-> 0]
     ELSE LET r1 == Invoke("fat12_read_sector", <<m, fat_sector>>)
          IN IF ~r1.ok THEN [m |-> r1.m, err |-> FAT12_ERR_READ, next |-> 0]
             ELSE IF entry_offset = SECTOR_SIZE - 1
               THEN LET r2 == Invoke("fat12_read_sector", <<r1.m, (fat_sector + 1) % 65536>>)
                    IN IF ~r2.ok THEN [m |-> r2.m, err |-> FAT12_ERR_READ, next |-> 0]
                       ELSE [m |-> r2.m, err |-> FAT12_OK,
                             next |-> Extract(Get(r1.data, entry_offset)
                                              + 256 * Get(r2.data, 0))]
             ELSE [m |-> r1.m, err |-> FAT12_OK,
                   next |-> Extract(LE16(r1.data, entry_offset))]

fat12_is_eof(cluster) == cluster >= 4088

fat12_is_free(cluster) == cluster = 0

fat12_is_bad(cluster) == cluster = 4087

fat12_cluster_to_lba(fat, cluster) ==
  (fat.data_start_sector + (cluster - 2) * fat.bpb.sectors_per_cluster) % 65536

\* ---- directory entries: the 32 bytes of a packed fat12_dirent_t ----
dirent_attr(e) == Get(e, 11)

dirent_start_cluster(e) == LE16(e, 26)

dirent_size(e) == LE32(e, 28)

fat12_entry_valid(e) ==
  ~(Get(e, 0) = 0 \/ Get(e, 0) = 229) /\ dirent_attr(e) # FAT12_ATTR_LFN

fat12_entry_is_end(e) == Get(e, 0) = 0

\* fat12_read_root_entry: [m, err, entry]
fat12_read_root_entry(m, index) ==
  LET fat == m.fs.fat
      sector == (fat.root_dir_start_sector
                 + (index * FAT12_DIR_ENTRY_SIZE) \div SECTOR_SIZE) % 65536
      offset == (index * FAT12_DIR_ENTRY_SIZE) % SECTOR_SIZE
  IN IF index >= fat.bpb.root_entries
     THEN [m |-> m, err |-> FAT12_ERR_EOF, entry |-> Zero]
     ELSE LET r == Invoke("fat12_read_sector", <<m, sector>>)
          IN IF ~r.ok THEN [m |-> r.m, err |-> FAT12_ERR_READ, entry |-> Zero]
             ELSE [m |-> r.m, err |-> FAT12_OK,
                   entry |-> Slice(r.data, offset, FAT12_DIR_ENTRY_SIZE)]

\* ---- file names: a path is a sequence of character codes ----
Upper(c) == IF c >= 97 /\ c <= 122 THEN c - 32 ELSE c

RECURSIVE NamePart(_, _, _, _)
\* copies the name part: [out, pos] where pos is the input position reached
NamePart(input, pos, i, out) ==
  IF pos <= Len(input) /\ input[pos] # 46 /\ i < 8
  THEN NamePart(input, pos + 1, i + 1, Put(out, i, Upper(input[pos])))
  ELSE [out |-> out, pos |-> pos]

RECURSIVE ExtPart(_, _, _, _)
ExtPart(input, pos, i, out) ==
  IF pos <= Len(input) /\ i < 3
  THEN ExtPart(input, pos + 1, i + 1, Put(out, 8 + i, Upper(input[pos])))
  ELSE out

\* fat12_format_name: the 11 bytes name8 followed by ext3
fat12_format_name(input) ==
  LET blank == [k \in 0..10 |-> 32]
      n == NamePart(input, 1, 0, blank)
      p == IF n.pos <= Len(input) /\ input[n.pos] = 46 THEN n.pos + 1 ELSE n.pos
  IN ExtPart(input, p, 0, n.out)

NameMatches(entry, name11) == SameBytes(entry, 0, name11, 11)

RECURSIVE FindLoop(_, _, _, _)
FindLoop(m, name11, i, last) ==
  IF i >= m.fs.fat.bpb.root_entries
  THEN [m |-> m, err |-> FAT12_ERR_NOT_FOUND, entry |-> last, index |-> i]
  ELSE LET r == Invoke("fat12_read_root_entry", <<m, i>>)
       IN IF r.err # FAT12_OK THEN [m |-> r.m, err |-> r.err, entry |-> last, index |-> i]
          ELSE IF fat12_entry_is_end(r.entry)
            THEN [m |-> r.m, err |-> FAT12_ERR_NOT_FOUND, entry |-> r.entry, index |-> i]
          ELSE IF fat12_entry_valid(r.entry) /\ NameMatches(r.entry, name11)
            THEN [m |-> r.m, err |-> FAT12_OK, entry |-> r.entry, index |-> i]
          ELSE FindLoop(r.m, name11, i + 1, r.entry)

\* fat12_find: [m, err, entry]; entry is what the out-parameter holds on return
fat12_find(m, filename, entry0) == Invoke("FindLoop", <<m, fat12_format_name(filename), 0, entry0>>)

\* ---- write batch ----
\* ents: the pending (lba, data) pairs in order; count is Len(ents).
\* staged: history of the batch, the latest data staged for every LBA since
\* fat12_write_batch_init (not program state).

fat12_write_batch_init == [ents |-> <<>>, staged |-> Zero, written |-> Zero]

\* fat12_write_batch_add: [batch, err]
fat12_write_batch_add(batch, lba, data) ==
  IF Len(batch.ents) >= FAT12_WRITE_BATCH_MAX
  THEN [batch |-> batch, err |-> FAT12_ERR_FULL]
  ELSE [batch |-> [batch EXCEPT !.ents = Append(@, [lba |-> lba, data |-> data]),
                                  !.staged = [k \in DOMAIN @ \cup {lba} |->
                                                IF k = lba THEN data ELSE @[k]]],
        err |-> FAT12_OK]

EmptyTrack(c, h) ==
  [track |-> c, side |-> h,
   sectors |-> [i \in 0..(SECTORS_PER_TRACK - 1) |->
                  [data |-> Zero, valid |-> FALSE, sector_n |-> i + 1]]]

\* a pass that keeps, for a sector queued more than once, the data queued first
GatherFirstQueued(fat, ents, c, h) ==
  LET Chs(i) == fat12_lba_to_chs(fat, ents[i].lba)
      Here(i, s) == Chs(i).c = c /\ Chs(i).h = h /\ Chs(i).s = s
      Elsewhere(e) == fat12_lba_to_chs(fat, e.lba).c # c \/ fat12_lba_to_chs(fat, e.lba).h # h
      First(s) == CHOOSE i \in 1..Len(ents) : Here(i, s) /\ \A j \in 1..(i - 1) : ~Here(j, s)
  IN [track |->
        [track |-> c, side |-> h,
         sectors |-> [k \in 0..(SECTORS_PER_TRACK - 1) |->
            IF \E i \in 1..Len(ents) : Here(i, k + 1)
            THEN [data |-> ents[First(k + 1)].data, valid |-> TRUE, sector_n |-> k + 1]
            ELSE EmptyTrack(c, h).sectors[k]]],
      rest |-> SelectSeq(ents, Elsewhere)]

\* one pass of the flush over the pending entries: [track, rest].  An entry of track
\* (c, h) fills its sector, a later entry of the same sector replacing an earlier one;
\* the entries of other tracks stay pending, in their order.
GatherTrack(fat, ents, c, h) ==
  LET Chs(i) == fat12_lba_to_chs(fat, ents[i].lba)
      Here(i, s) == Chs(i).c = c /\ Chs(i).h = h /\ Chs(i).s = s
      Elsewhere(e) == fat12_lba_to_chs(fat, e.lba).c # c \/ fat12_lba_to_chs(fat, e.lba).h # h
      Last(s) == CHOOSE i \in 1..Len(ents) :
                   Here(i, s) /\ \A j \in (i + 1)..Len(ents) : ~Here(j, s)
  IN [track |->
        [track |-> c, side |-> h,
         sectors |-> [k \in 0..(SECTORS_PER_TRACK - 1) |->
            IF \E i \in 1..Len(ents) : Here(i, k + 1)
            THEN [data |-> ents[Last(k + 1)].data, valid |-> TRUE, sector_n |-> k + 1]
            ELSE EmptyTrack(c, h).sectors[k]]],
      rest |-> SelectSeq(ents, Elsewhere)]

\* history: what the media holds, right after a track write, at the sectors it wrote
MarkWritten(written, media, t) ==
  LET lbas == {vdisk_lba(t.track, t.side, t.sectors[i].sector_n) :
                 i \in {j \in DOMAIN t.sectors : t.sectors[j].valid}}
  IN [k \in DOMAIN written \cup lbas |->
        IF k \in lbas THEN MediaSector(media, k) ELSE written[k]]

\* a flush that writes the first track and forgets the entries of the other tracks
FlushFirstTrackOnly(m, batch) ==
  IF Len(batch.ents) = 0 THEN [m |-> m, batch |-> batch, err |-> FAT12_OK]
  ELSE LET first == fat12_lba_to_chs(m.fs.fat, batch.ents[1].lba)
           g == GatherTrack(m.fs.fat, batch.ents, first.c, first.h)
           nb == [batch EXCEPT !.ents = <<>>]
           w == Invoke("f12_cached_write", <<m, g.track>>)
       IN IF ~w.ok THEN [m |-> w.m, batch |-> nb, err |-> FAT12_ERR_WRITE]
          ELSE [m |-> w.m, batch |-> [nb EXCEPT !.written = MarkWritten(@, w.m.media, g.track)],
                err |-> FAT12_OK]

RECURSIVE fat12_write_batch_flush(_, _)
\* fat12_write_batch_flush: [m, batch, err]
fat12_write_batch_flush(m, batch) ==
  IF Len(batch.ents) = 0 THEN [m |-> m, batch |-> batch, err |-> FAT12_OK]
  ELSE LET first == fat12_lba_to_chs(m.fs.fat, batch.ents[1].lba)
           g == GatherTrack(m.fs.fat, batch.ents, first.c, first.h)
           nb == [batch EXCEPT !.ents = g.rest]
           w == Invoke("f12_cached_write", <<m, g.track>>)
       IN IF ~w.ok THEN [m |-> w.m, batch |-> nb, err |-> FAT12_ERR_WRITE]
          ELSE fat12_write_batch_flush(w.m, [nb EXCEPT !.written = MarkWritten(@, w.m.media, g.track)])

\* fat12_write_sector_batched: [m, batch, err]
fat12_write_sector_batched(m, batch, lba, data) ==
  LET a == fat12_write_batch_add(batch, lba, data)
  IN IF a.err = FAT12_ERR_FULL
     THEN LET f == Invoke("fat12_write_batch_flush", <<m, batch>>)
          IN IF f.err # FAT12_OK THEN f
             ELSE LET a2 == fat12_write_batch_add(f.batch, lba, data)
                  IN [m |-> f.m, batch |-> a2.batch, err |-> a2.err]
     ELSE [m |-> m, batch |-> a.batch, err |-> a.err]

\* index of the last pending entry for lba, 0 if none
BatchFind(ents, lba) ==
  IF \E i \in 1..Len(ents) : ents[i].lba = lba
  THEN CHOOSE i \in 1..Len(ents) :
         ents[i].lba = lba /\ \A j \in (i + 1)..Len(ents) : ents[j].lba # lba
  ELSE 0

\* fat12_read_sector_batched: [m, ok, data]
fat12_read_sector_batched(m, batch, lba) ==
  LET i == BatchFind(batch.ents, lba)
  IN IF i # 0 THEN [m |-> m, ok |-> TRUE, data |-> batch.ents[i].data]
     ELSE Invoke("fat12_read_sector", <<m, lba>>)

\* staging that updates the first FAT copy only
WriteFirstCopyOnly(m, batch, f, rel, secs) ==
  LET lba == (m.fs.fat.fat_start_sector + rel) % 65536
      w1 == Invoke("fat12_write_sector_batched", <<m, batch, lba, secs[1]>>)
  IN IF w1.err # FAT12_OK \/ Len(secs) = 1 THEN w1
     ELSE Invoke("fat12_write_sector_batched", <<w1.m, w1.batch, (lba + 1) % 65536, secs[2]>>)

RECURSIVE WriteFatCopies(_, _, _, _, _)
\* the loop over the FAT copies: stage the sectors in secs at rel + k of every copy
WriteFatCopies(m, batch, f, rel, secs) ==
  IF f >= m.fs.fat.bpb.num_fats THEN [m |-> m, batch |-> batch, err |-> FAT12_OK]
  ELSE LET fat_base == (m.fs.fat.fat_start_sector + f * m.fs.fat.bpb.sectors_per_fat) % 65536
           lba == (fat_base + rel) % 65536
           w1 == Invoke("fat12_write_sector_batched", <<m, batch, lba, secs[1]>>)
       IN IF w1.err # FAT12_OK THEN w1
          ELSE IF Len(secs) = 1 THEN WriteFatCopies(w1.m, w1.batch, f + 1, rel, secs)
          ELSE LET w2 == Invoke("fat12_write_sector_batched", <<w1.m, w1.batch, (lba + 1) % 65536, secs[2]>>)
               IN IF w2.err # FAT12_OK THEN w2
                  ELSE WriteFatCopies(w2.m, w2.batch, f + 1, rel, secs)

\* fat12_set_entry: [m, batch, err]
fat12_set_entry(m, batch, cluster, value) ==
  LET fat == m.fs.fat
      fat_offset == cluster + (cluster \div 2)
      rel == fat_offset \div SECTOR_SIZE
      fat_sector_lba == (fat.fat_start_sector + rel) % 65536
      eo == fat_offset % SECTOR_SIZE
      r1 == Invoke("fat12_read_sector_batched", <<m, batch, fat_sector_lba>>)
  IN IF ~r1.ok THEN [m |-> r1.m, batch |-> batch, err |-> FAT12_ERR_READ]
     ELSE IF eo = SECTOR_SIZE - 1
       THEN LET r2 == Invoke("fat12_read_sector_batched", <<r1.m, batch, (fat_sector_lba + 1) % 65536>>)
            IN IF ~r2.ok THEN [m |-> r2.m, batch |-> batch, err |-> FAT12_ERR_READ]
               ELSE LET s1 == IF cluster % 2 = 1
                              THEN Put(r1.data, eo, (Get(r1.data, eo) % 16) + (value % 16) * 16)
                              ELSE Put(r1.data, eo, value % 256)
                        s2 == IF cluster % 2 = 1
                              THEN Put(r2.data, 0, value \div 16)
                              ELSE Put(r2.data, 0, (Get(r2.data, 0) - (Get(r2.data, 0) % 16))
                                                   + ((value \div 256) % 16))
                    IN Invoke("WriteFatCopies", <<r2.m, batch, 0, rel, <<s1, s2>>>>)
     ELSE LET existing == LE16(r1.data, eo)
              updated == IF cluster % 2 = 1
                         THEN ((existing % 16) + value * 16) % 65536
                         ELSE (existing - (existing % 4096)) + (value % 4096)
          IN Invoke("WriteFatCopies", <<r1.m, batch, 0, rel, <<PutLE16(r1.data, eo, updated)>>>>)

RECURSIVE FindFreeLoop(_, _)
FindFreeLoop(m, cluster) ==
  IF cluster >= m.fs.fat.total_clusters + 2
  THEN [m |-> m, err |-> FAT12_ERR_FULL, cluster |-> 0]
  ELSE LET g == Invoke("fat12_get_entry", <<m, cluster>>)
       IN IF g.err # FAT12_OK THEN [m |-> g.m, err |-> g.err, cluster |-> 0]
          ELSE IF fat12_is_free(g.next) THEN [m |-> g.m, err |-> FAT12_OK, cluster |-> cluster]
          ELSE FindFreeLoop(g.m, (cluster + 1) % 65536)

\* fat12_find_free_cluster_from: [m, err, cluster]
fat12_find_free_cluster_from(m, start) == FindFreeLoop(m, IF start < 2 THEN 2 ELSE start)

RECURSIVE WriteClusterLoop(_, _, _, _, _)
WriteClusterLoop(m, batch, lba, buf, i) ==
  IF i >= m.fs.fat.bpb.sectors_per_cluster THEN [m |-> m, batch |-> batch, err |-> FAT12_OK]
  ELSE LET w == Invoke("fat12_write_sector_batched", <<m, batch, (lba + i) % 65536,
                                           Slice(buf, i * SECTOR_SIZE, SECTOR_SIZE)>>)
       IN IF w.err # FAT12_OK THEN w ELSE WriteClusterLoop(w.m, w.batch, lba, buf, i + 1)

\* fat12_write_cluster: [m, batch, err]
fat12_write_cluster(m, batch, cluster, buf) ==
  IF cluster < 2 \/ fat12_is_eof(cluster) \/ fat12_is_bad(cluster)
  THEN [m |-> m, batch |-> batch, err |-> FAT12_ERR_INVALID]
  ELSE IF cluster >= m.fs.fat.total_clusters + 2
    THEN [m |-> m, batch |-> batch, err |-> FAT12_ERR_INVALID]
  ELSE WriteClusterLoop(m, batch, fat12_cluster_to_lba(m.fs.fat, cluster), buf, 0)

\* fat12_write_root_entry: [m, batch, err]
fat12_write_root_entry(m, batch, index, entry) ==
  LET fat == m.fs.fat
      sector_lba == (fat.root_dir_start_sector
                     + (index * FAT12_DIR_ENTRY_SIZE) \div SECTOR_SIZE) % 65536
      offset == (index * FAT12_DIR_ENTRY_SIZE) % SECTOR_SIZE
  IN IF index >= fat.bpb.root_entries
     THEN [m |-> m, batch |-> batch, err |-> FAT12_ERR_EOF]
     ELSE LET r == Invoke("fat12_read_sector", <<m, sector_lba>>)
          IN IF ~r.ok THEN [m |-> r.m, batch |-> batch, err |-> FAT12_ERR_READ]
             ELSE Invoke("fat12_write_sector_batched", <<r.m, batch, sector_lba,
                    Splice(r.data, offset, entry, FAT12_DIR_ENTRY_SIZE)>>)

\* ---- reading files ----

RECURSIVE ReadClusterLoop(_, _, _, _)
ReadClusterLoop(m, lba, i, buf) ==
  IF i >= m.fs.fat.bpb.sectors_per_cluster THEN [m |-> m, err |-> FAT12_OK, buf |-> buf]
  ELSE LET r == Invoke("fat12_read_sector", <<m, (lba + i) % 65536>>)
       IN IF ~r.ok THEN [m |-> r.m, err |-> FAT12_ERR_READ, buf |-> buf]
          ELSE ReadClusterLoop(r.m, lba, i + 1,
                               Splice(buf, i * SECTOR_SIZE, r.data, SECTOR_SIZE))

\* fat12_read_cluster: [m, err, buf]
fat12_read_cluster(m, cluster) ==
  IF cluster < 2 \/ fat12_is_eof(cluster) \/ fat12_is_bad(cluster)
  THEN [m |-> m, err |-> FAT12_ERR_INVALID, buf |-> Zero]
  ELSE IF cluster >= m.fs.fat.total_clusters + 2
    THEN [m |-> m, err |-> FAT12_ERR_INVALID, buf |-> Zero]
  ELSE ReadClusterLoop(m, fat12_cluster_to_lba(m.fs.fat, cluster), 0, Zero)

ZeroReader == [current_cluster |-> 0, file_size |-> 0, bytes_read |-> 0]

\* fat12_open: [err, reader]
fat12_open(entry, reader) ==
  IF (dirent_attr(entry) \div FAT12_ATTR_DIRECTORY) % 2 = 1
  THEN [err |-> FAT12_ERR_INVALID, reader |-> reader]
  ELSE [err |-> FAT12_OK,
        reader |-> [current_cluster |-> dirent_start_cluster(entry),
                    file_size |-> dirent_size(entry), bytes_read |-> 0]]

RECURSIVE ReadLoop(_, _, _, _, _)
\* the loop of fat12_read; out holds the total bytes copied so far
ReadLoop(m, rd, len, out, total) ==
  LET cluster_size == (m.fs.fat.bpb.sectors_per_cluster * SECTOR_SIZE) % 65536
  IN IF ~(len > 0 /\ rd.bytes_read < rd.file_size)
     THEN [m |-> m, reader |-> rd, ok |-> TRUE, n |-> total, data |-> out]
     ELSE IF rd.current_cluster < 2 \/ fat12_is_eof(rd.current_cluster)
       THEN [m |-> m, reader |-> rd, ok |-> TRUE, n |-> total, data |-> out]
     ELSE LET rc == Invoke("fat12_read_cluster", <<m, rd.current_cluster>>)
          IN IF rc.err # FAT12_OK
             THEN [m |-> rc.m, reader |-> rd, ok |-> FALSE, n |-> total, data |-> out]
             ELSE
               LET offset_in_cluster == rd.bytes_read % cluster_size
                   remaining_in_cluster == cluster_size - offset_in_cluster
                   remaining_in_file == rd.file_size - rd.bytes_read
                   to_copy == Min(Min(len, remaining_in_cluster), remaining_in_file)
                   out2 == Splice(out, total, Slice(rc.buf, offset_in_cluster, to_copy), to_copy)
                   rd2 == [rd EXCEPT !.bytes_read = @ + to_copy]
                   total2 == (total + to_copy) % 65536
               IN IF rd2.bytes_read % cluster_size = 0
                  THEN LET g == Invoke("fat12_get_entry", <<rc.m, rd.current_cluster>>)
                       IN IF g.err # FAT12_OK
                          THEN [m |-> g.m, reader |-> rd2, ok |-> FALSE,
                                n |-> total2, data |-> out2]
                          ELSE ReadLoop(g.m, [rd2 EXCEPT !.current_cluster = g.next],
                                        len - to_copy, out2, total2)
                  ELSE ReadLoop(rc.m, rd2, len - to_copy, out2, total2)

\* fat12_read with a uint16_t len: [m, reader, ok, n, data]
fat12_read(m, rd, len) ==
  IF m.fs.fat.bpb.sectors_per_cluster * SECTOR_SIZE > 64 * SECTOR_SIZE
  THEN [m |-> m, reader |-> rd, ok |-> FALSE, n |-> 0, data |-> Zero]
  ELSE Invoke("ReadLoop", <<m, rd, len % 65536, Zero, 0>>)

\* ---- writing files ----

ZeroWriter ==
  [batch |-> fat12_write_batch_init, dirent_index |-> 0, dirent |-> Zero,
   first_cluster |-> 0, current_cluster |-> 0, prev_cluster |-> 0,
   bytes_written |-> 0, cluster_offset |-> 0, next_free_hint |-> 0]

\* a zeroed directory entry with name, extension and the archive attribute
NewDirent(name11) == Put(Splice(Zero, 0, name11, 11), 11, FAT12_ATTR_ARCHIVE)

RECURSIVE FreeChain(_, _, _)
\* the chain-freeing loop of fat12_open_write and fat12_delete: [m, batch, err]
FreeChain(m, batch, cluster) ==
  IF ~(cluster >= 2 /\ ~fat12_is_eof(cluster) /\ ~fat12_is_bad(cluster))
  THEN [m |-> m, batch |-> batch, err |-> FAT12_OK]
  ELSE LET g == Invoke("fat12_get_entry", <<m, cluster>>)
       IN IF g.err # FAT12_OK THEN [m |-> g.m, batch |-> batch, err |-> FAT12_OK]
          ELSE LET s == Invoke("fat12_set_entry", <<g.m, batch, cluster, 0>>)
               IN IF s.err # FAT12_OK THEN s
                  ELSE FreeChain(s.m, s.batch, g.next)

RECURSIVE OpenWriteLoop(_, _, _, _)
OpenWriteLoop(m, name11, i, w) ==
  IF i >= m.fs.fat.bpb.root_entries
  THEN [m |-> m, err |-> FAT12_ERR_FULL, writer |-> w]
  ELSE LET r == Invoke("fat12_read_root_entry", <<m, i>>)
       IN IF r.err # FAT12_OK THEN [m |-> r.m, err |-> r.err, writer |-> w]
          ELSE IF fat12_entry_is_end(r.entry) \/ Get(r.entry, 0) = 229
            THEN [m |-> r.m, err |-> FAT12_OK,
                  writer |-> [w EXCEPT !.dirent_index = i, !.dirent = NewDirent(name11)]]
          ELSE IF NameMatches(r.entry, name11)
            THEN LET f == Invoke("FreeChain", <<r.m, w.batch, dirent_start_cluster(r.entry)>>)
                 IN IF f.err # FAT12_OK
                    THEN [m |-> f.m, err |-> f.err,
                          writer |-> [w EXCEPT !.dirent_index = i, !.dirent = r.entry,
                                               !.batch = f.batch]]
                    ELSE [m |-> f.m, err |-> FAT12_OK,
                          writer |-> [w EXCEPT !.dirent_index = i,
                                               !.dirent = PutLE32(PutLE16(r.entry, 26, 0), 28, 0),
                                               !.batch = f.batch]]
          ELSE OpenWriteLoop(r.m, name11, i + 1, [w EXCEPT !.dirent = r.entry])

\* fat12_open_write: [m, err, writer]
fat12_open_write(m, filename) ==
  OpenWriteLoop(m, fat12_format_name(filename), 0, ZeroWriter)

\* the allocation branch of fat12_write: [m, writer, err]
AllocCluster(m, w) ==
  LET ff == Invoke("fat12_find_free_cluster_from", <<m, w.next_free_hint>>)
  IN IF ff.err # FAT12_OK THEN [m |-> ff.m, writer |-> w, err |-> ff.err]
     ELSE LET s1 == Invoke("fat12_set_entry", <<ff.m, w.batch, ff.cluster, 4095>>)
          IN IF s1.err # FAT12_OK
             THEN [m |-> s1.m, writer |-> [w EXCEPT !.batch = s1.batch], err |-> s1.err]
             ELSE LET s2 == IF w.prev_cluster # 0
                            THEN Invoke("fat12_set_entry", <<s1.m, s1.batch, w.prev_cluster, ff.cluster>>)
                            ELSE s1
                  IN IF s2.err # FAT12_OK
                     THEN [m |-> s2.m, writer |-> [w EXCEPT !.batch = s2.batch], err |-> s2.err]
                     ELSE [m |-> s2.m, err |-> FAT12_OK,
                           writer |-> [w EXCEPT
                             !.batch = s2.batch,
                             !.first_cluster = IF @ = 0 THEN ff.cluster ELSE @,
                             !.prev_cluster = w.current_cluster,
                             !.current_cluster = ff.cluster,
                             !.cluster_offset = 0,
                             !.next_free_hint = (ff.cluster + 1) % 65536]]

RECURSIVE ReadBackCluster(_, _, _, _)
\* the read of the current cluster before a partial write; a failed read leaves zeros
ReadBackCluster(m, lba, i, buf) ==
  IF i >= m.fs.fat.bpb.sectors_per_cluster THEN [m |-> m, buf |-> buf]
  ELSE LET r == Invoke("fat12_read_sector", <<m, (lba + i) % 65536>>)
       IN ReadBackCluster(r.m, lba, i + 1,
            IF r.ok THEN Splice(buf, i * SECTOR_SIZE, r.data, SECTOR_SIZE)
            ELSE Splice(buf, i * SECTOR_SIZE, Zero, SECTOR_SIZE))

RECURSIVE WriteLoop(_, _, _, _, _, _)
\* the loop of fat12_write; pos is the offset into buf: [m, writer, ok, n]
WriteLoop(m, w0, buf, pos, len, total) ==
  IF len = 0 THEN [m |-> m, writer |-> w0, ok |-> TRUE, n |-> total]
  ELSE
    LET cluster_size == (m.fs.fat.bpb.sectors_per_cluster * SECTOR_SIZE) % 65536
        a == IF w0.current_cluster = 0 \/ w0.cluster_offset >= cluster_size
             THEN Invoke("AllocCluster", <<m, w0>>)
             ELSE [m |-> m, writer |-> w0, err |-> FAT12_OK]
    IN IF a.err # FAT12_OK THEN [m |-> a.m, writer |-> a.writer, ok |-> FALSE, n |-> total]
       ELSE
         LET w == a.writer
             remaining_in_cluster == cluster_size - w.cluster_offset
             to_write == Min(len, remaining_in_cluster)
             chunk == Slice(buf, pos, to_write)
             rb == IF w.cluster_offset > 0
                   THEN Invoke("ReadBackCluster", <<a.m, fat12_cluster_to_lba(a.m.fs.fat, w.current_cluster),
                                        0, Zero>>)
                   ELSE [m |-> a.m, buf |-> Zero]
             cluster_buf == IF w.cluster_offset > 0
                            THEN Splice(rb.buf, w.cluster_offset, chunk, to_write)
                            ELSE chunk
             wc == Invoke("fat12_write_cluster", <<rb.m, w.batch, w.current_cluster, cluster_buf>>)
         IN IF wc.err # FAT12_OK
            THEN [m |-> wc.m, writer |-> [w EXCEPT !.batch = wc.batch], ok |-> FALSE, n |-> total]
            ELSE
              LET off2 == (w.cluster_offset + to_write) % 65536
                  w2 == [w EXCEPT !.batch = wc.batch,
                                  !.bytes_written = @ + to_write,
                                  !.cluster_offset = off2,
                                  !.prev_cluster = IF off2 >= cluster_size
                                                   THEN w.current_cluster ELSE @,
                                  !.current_cluster = IF off2 >= cluster_size THEN 0 ELSE @]
              IN WriteLoop(wc.m, w2, buf, pos + to_write, len - to_write,
                           (total + to_write) % 65536)

\* fat12_write with a uint16_t len: [m, writer, ok, n]
fat12_write(m, w, buf, len) ==
  IF m.fs.fat.bpb.sectors_per_cluster * SECTOR_SIZE > 64 * SECTOR_SIZE
  THEN [m |-> m, writer |-> w, ok |-> FALSE, n |-> 0]
  ELSE Invoke("WriteLoop", <<m, w, buf, 0, len % 65536, 0>>)

\* fat12_close_write: [m, writer, err]
fat12_close_write(m, w0) ==
  LET w == [w0 EXCEPT !.dirent = PutLE32(PutLE16(@, 26, w0.first_cluster), 28, w0.bytes_written)]
      r == Invoke("fat12_write_root_entry", <<m, w.batch, w.dirent_index, w.dirent>>)
  IN IF r.err # FAT12_OK
     THEN [m |-> r.m, writer |-> [w EXCEPT !.batch = r.batch], err |-> r.err]
     ELSE LET f == Invoke("fat12_write_batch_flush", <<r.m, r.batch>>)
          IN [m |-> f.m, writer |-> [w EXCEPT !.batch = f.batch], err |-> f.err]

RECURSIVE DeleteLoop(_, _, _)
DeleteLoop(m, name11, i) ==
  IF i >= m.fs.fat.bpb.root_entries THEN [m |-> m, err |-> FAT12_ERR_NOT_FOUND]
  ELSE LET r == Invoke("fat12_read_root_entry", <<m, i>>)
       IN IF r.err # FAT12_OK THEN [m |-> r.m, err |-> r.err]
          ELSE IF fat12_entry_is_end(r.entry) THEN [m |-> r.m, err |-> FAT12_ERR_NOT_FOUND]
          ELSE IF fat12_entry_valid(r.entry) /\ NameMatches(r.entry, name11)
            THEN LET f == Invoke("FreeChain", <<r.m, fat12_write_batch_init, dirent_start_cluster(r.entry)>>)
                 IN IF f.err # FAT12_OK THEN [m |-> f.m, err |-> f.err]
                    ELSE LET d == Invoke("fat12_write_root_entry", <<f.m, f.batch, i, Put(r.entry, 0, 229)>>)
                         IN IF d.err # FAT12_OK THEN [m |-> d.m, err |-> d.err]
                            ELSE LET fl == Invoke("fat12_write_batch_flush", <<d.m, d.batch>>)
                                 IN [m |-> fl.m, err |-> fl.err]
          ELSE DeleteLoop(r.m, name11, i + 1)

\* fat12_delete: [m, err]
fat12_delete(m, filename) == Invoke("DeleteLoop", <<m, fat12_format_name(filename), 0>>)

\* ---- fat12_delete and fat12_open_write one turn of the chain-freeing loop at a time;
\* b holds the locals of the call ----

\* one turn of the loop of fat12_find_free_cluster_from: r is [m, out, err, cluster],
\* out tells that the loop was left
search_step(r, cluster) ==
  LET g == Invoke("fat12_get_entry", <<r.m, cluster>>)
  IN IF g.err # FAT12_OK THEN [m |-> g.m, out |-> TRUE, err |-> g.err, cluster |-> 0]
     ELSE IF fat12_is_free(g.next)
       THEN [m |-> g.m, out |-> TRUE, err |-> FAT12_OK, cluster |-> cluster]
     ELSE [m |-> g.m, out |-> FALSE, err |-> FAT12_OK, cluster |-> 0]

RECURSIVE SearchRange(_, _, _)
\* the turns of that loop for cluster = lo..hi in order, stopping where it is left
SearchRange(r, lo, hi) ==
  IF r.out \/ lo > hi THEN r
  ELSE IF lo = hi THEN search_step(r, lo)
  ELSE LET mid == (lo + hi) \div 2
       IN SearchRange(SearchRange(r, lo, mid), mid + 1, hi)

\* the loop of fat12_find_free_cluster_from, from cluster up to the turn at which it is
\* left or at which its uint16_t counter is at its largest value: [m, out, err, cluster]
search_lap(mm, cluster) ==
  LET last == Min(mm.fs.fat.total_clusters + 2, 65536) - 1
  IN SearchRange([m |-> mm, out |-> FALSE, err |-> FAT12_OK, cluster |-> 0], cluster, last)

\* the call returns err
Returned(b, op, err) == [b EXCEPT !.pc = "idle", !.op = op, !.err = err]

RECURSIVE ScanFor(_, _, _, _)
\* the directory scan of fat12_delete (op = "delete") and of fat12_open_write, up to
\* the entry it settles on: [m, err, hit, index, entry]
ScanFor(mm, name11, i, op) ==
  IF i >= mm.fs.fat.bpb.root_entries
  THEN [m |-> mm, err |-> IF op = "delete" THEN FAT12_ERR_NOT_FOUND ELSE FAT12_ERR_FULL,
        hit |-> "none", index |-> i, entry |-> Zero]
  ELSE LET r == Invoke("fat12_read_root_entry", <<mm, i>>)
       IN IF r.err # FAT12_OK
          THEN [m |-> r.m, err |-> r.err, hit |-> "none", index |-> i, entry |-> Zero]
          ELSE IF fat12_entry_is_end(r.entry) \/ (op # "delete" /\ Get(r.entry, 0) = 229)
            THEN [m |-> r.m, err |-> IF op = "delete" THEN FAT12_ERR_NOT_FOUND ELSE FAT12_OK,
                  hit |-> IF op = "delete" THEN "none" ELSE "slot", index |-> i,
                  entry |-> r.entry]
          ELSE IF (op # "delete" \/ fat12_entry_valid(r.entry)) /\ NameMatches(r.entry, name11)
            THEN [m |-> r.m, err |-> FAT12_OK, hit |-> "match", index |-> i, entry |-> r.entry]
          ELSE Invoke("ScanFor", <<r.m, name11, i + 1, op>>)

\* what follows the chain-freeing loop: [m, bench]
FreeEnd(mm, b) ==
  IF b.op = "delete"
  THEN LET d == Invoke("fat12_write_root_entry", <<mm, b.batch, b.index, Put(b.entry, 0, 229)>>)
       IN IF d.err # FAT12_OK THEN [m |-> d.m, bench |-> Returned(b, b.op, d.err)]
          ELSE LET fl == Invoke("fat12_write_batch_flush", <<d.m, d.batch>>)
               IN [m |-> fl.m,
                   bench |-> [Returned(b, b.op, fl.err) EXCEPT !.batch = fl.batch]]
  ELSE [m |-> mm,
        bench |-> [Returned(b, b.op, FAT12_OK) EXCEPT
                     !.open = TRUE,
                     !.writer = [ZeroWriter EXCEPT
                                   !.dirent_index = b.index,
                                   !.dirent = PutLE32(PutLE16(b.entry, 26, 0), 28, 0),
                                   !.batch = b.batch]]]

\* one test of the chain-freeing loop and, when it passes, one turn of its body:
\* [m, bench]
free_step(mm, b) ==
  IF ~(b.cluster >= 2 /\ ~fat12_is_eof(b.cluster) /\ ~fat12_is_bad(b.cluster))
  THEN FreeEnd(mm, b)
  ELSE LET g == Invoke("fat12_get_entry", <<mm, b.cluster>>)
       IN IF g.err # FAT12_OK THEN FreeEnd(g.m, b)
          ELSE LET s == Invoke("fat12_set_entry", <<g.m, b.batch, b.cluster, 0>>)
               IN IF s.err # FAT12_OK
                  THEN [m |-> s.m, bench |-> [Returned(b, b.op, s.err) EXCEPT !.batch = s.batch]]
                  ELSE [m |-> s.m,
                        bench |-> [b EXCEPT !.cluster = g.next, !.batch = s.batch,
                                            !.turns = @ + 1,
                                            !.seen = @ \cup {b.cluster},
                                            !.again = @ \/ g.next \in b.seen \cup {b.cluster}]]

(***************************************************************************)
(* File API (f12.c)                                                         *)
(***************************************************************************)

Slots == 0..(F12_MAX_OPEN_FILES - 1)

\* a zeroed f12_file_t; fs tells whether file->fs is set
ZeroFile ==
  [fs |-> FALSE, dirent |-> Zero, reader |-> ZeroReader, writer |-> ZeroWriter,
   mode |-> F12_MODE_CLOSED, position |-> 0]

\* a zeroed f12_t with its io callbacks set
ZeroFs ==
  [mounted |-> FALSE, cache |-> NoCache, fat |-> ZeroFat,
   files |-> [i \in Slots |-> ZeroFile], last_error |-> F12_OK]

\* f12_alloc_file: the first closed slot, or -1
f12_alloc_file(fs) ==
  IF \E i \in Slots : fs.files[i].mode = F12_MODE_CLOSED
  THEN CHOOSE i \in Slots : fs.files[i].mode = F12_MODE_CLOSED
                            /\ \A j \in 0..(i - 1) : fs.files[j].mode # F12_MODE_CLOSED
  ELSE -1

\* f12_mount: [m, err]
f12_mount(m) ==
  LET m1 == [m EXCEPT !.fs = [ZeroFs EXCEPT !.cache = cache_init]]
      r == Invoke("fat12_init", <<m1>>)
  IN IF r.err # FAT12_OK
     THEN [m |-> f12_set_error([r.m EXCEPT !.fs.cache = NoCache], fat12_to_f12_err(r.err)),
           err |-> fat12_to_f12_err(r.err)]
     ELSE [m |-> [r.m EXCEPT !.fs.mounted = TRUE], err |-> F12_OK]

\* a close that keeps the slot when the flush fails
CloseKeepsSlotOnError(m, i) ==
  IF ~m.fs.files[i].fs THEN [m |-> m, err |-> F12_ERR_BAD_HANDLE]
  ELSE IF m.fs.files[i].mode = F12_MODE_WRITE
    THEN LET c == Invoke("fat12_close_write", <<m, m.fs.files[i].writer>>)
             m2 == [c.m EXCEPT !.fs.files[i].writer = c.writer]
         IN IF c.err # FAT12_OK
            THEN [m |-> f12_set_error(m2, fat12_to_f12_err(c.err)),
                  err |-> fat12_to_f12_err(c.err)]
            ELSE [m |-> [m2 EXCEPT !.fs.files[i].mode = F12_MODE_CLOSED], err |-> F12_OK]
  ELSE [m |-> [m EXCEPT !.fs.files[i].mode = F12_MODE_CLOSED], err |-> F12_OK]

\* a close that flushes the writer of the slot whatever the mode of the handle
CloseFlushesAnyMode(m, i) ==
  IF ~m.fs.files[i].fs THEN [m |-> m, err |-> F12_ERR_BAD_HANDLE]
  ELSE LET c == Invoke("fat12_close_write", <<m, m.fs.files[i].writer>>)
           m2 == [c.m EXCEPT !.fs.files[i].writer = c.writer,
                             !.fs.files[i].mode = F12_MODE_CLOSED]
       IN IF c.err # FAT12_OK
          THEN [m |-> f12_set_error(m2, fat12_to_f12_err(c.err)),
                err |-> fat12_to_f12_err(c.err)]
          ELSE [m |-> m2, err |-> F12_OK]

\* f12_close: [m, err]
f12_close(m, i) ==
  IF ~m.fs.files[i].fs THEN [m |-> m, err |-> F12_ERR_BAD_HANDLE]
  ELSE IF m.fs.files[i].mode = F12_MODE_WRITE
    THEN LET c == Invoke("fat12_close_write", <<m, m.fs.files[i].writer>>)
             m2 == [c.m EXCEPT !.fs.files[i].writer = c.writer,
                               !.fs.files[i].mode = F12_MODE_CLOSED]
         IN IF c.err # FAT12_OK
            THEN [m |-> f12_set_error(m2, fat12_to_f12_err(c.err)),
                  err |-> fat12_to_f12_err(c.err)]
            ELSE [m |-> m2, err |-> F12_OK]
  ELSE [m |-> [m EXCEPT !.fs.files[i].mode = F12_MODE_CLOSED], err |-> F12_OK]

RECURSIVE CloseAll(_, _)
CloseAll(m, i) ==
  IF i >= F12_MAX_OPEN_FILES THEN m
  ELSE CloseAll(IF m.fs.files[i].mode # F12_MODE_CLOSED THEN Invoke("f12_close", <<m, i>>).m ELSE m, i + 1)

\* f12_unmount
f12_unmount(m) ==
  [Invoke("CloseAll", <<m, 0>>) EXCEPT !.fs.cache = NoCache, !.fs.mounted = FALSE]

StripSlash(path) == IF Len(path) > 0 /\ path[1] = 47 THEN Tail(path) ELSE path

\* f12_open: [m, slot]; slot is -1 when the call returns NULL
f12_open(m, path0, mode) ==
  IF Len(mode) = 0 \/ mode[1] \notin {114, 119, 97}
  THEN [m |-> f12_set_error(m, F12_ERR_INVALID), slot |-> -1]
  ELSE
    LET wr == mode[1] # 114
        truncate == mode[1] = 119
        chk == IF wr THEN Invoke("f12_check_writable", <<m>>) ELSE Invoke("f12_check_disk", <<m>>)
        path == StripSlash(path0)
        i == f12_alloc_file(chk.m.fs)
    IN IF chk.err # F12_OK THEN [m |-> chk.m, slot |-> -1]
       ELSE IF i = -1 THEN [m |-> f12_set_error(chk.m, F12_ERR_TOO_MANY), slot |-> -1]
       ELSE
         LET m1 == [chk.m EXCEPT !.fs.files[i] = [ZeroFile EXCEPT !.fs = TRUE]]
         IN IF ~wr
            THEN LET f == Invoke("fat12_find", <<m1, path, Zero>>)
                     m2 == [f.m EXCEPT !.fs.files[i].dirent = f.entry]
                     o == Invoke("fat12_open", <<f.entry, ZeroReader>>)
                 IN IF f.err # FAT12_OK
                    THEN [m |-> f12_set_error(m2, fat12_to_f12_err(f.err)), slot |-> -1]
                    ELSE IF (dirent_attr(f.entry) \div FAT12_ATTR_DIRECTORY) % 2 = 1
                      THEN [m |-> f12_set_error(m2, F12_ERR_IS_DIR), slot |-> -1]
                    ELSE IF o.err # FAT12_OK
                      THEN [m |-> f12_set_error(m2, fat12_to_f12_err(o.err)), slot |-> -1]
                    ELSE [m |-> [m2 EXCEPT !.fs.files[i].reader = o.reader,
                                           !.fs.files[i].mode = F12_MODE_READ,
                                           !.fs.files[i].position = 0],
                          slot |-> i]
            ELSE LET d == IF truncate THEN Invoke("fat12_delete", <<m1, path>>).m ELSE m1
                     ow == Invoke("fat12_open_write", <<d, path>>)
                     m2 == [ow.m EXCEPT !.fs.files[i].writer = ow.writer]
                 IN IF ow.err # FAT12_OK
                    THEN [m |-> f12_set_error(m2, fat12_to_f12_err(ow.err)), slot |-> -1]
                    ELSE [m |-> [m2 EXCEPT !.fs.files[i].mode = F12_MODE_WRITE,
                                           !.fs.files[i].position =
                                              IF mode[1] = 97 THEN ow.writer.bytes_written ELSE 0],
                          slot |-> i]

\* f12_read: [m, ret, data]; ret is the byte count or -1
f12_read(m, i, len) ==
  IF ~m.fs.files[i].fs THEN [m |-> m, ret |-> -1, data |-> Zero]
  ELSE IF m.fs.files[i].mode # F12_MODE_READ
    THEN [m |-> f12_set_error(m, F12_ERR_INVALID), ret |-> -1, data |-> Zero]
  ELSE LET chk == Invoke("f12_check_disk", <<m>>)
       IN IF chk.err # F12_OK THEN [m |-> chk.m, ret |-> -1, data |-> Zero]
          ELSE LET r == Invoke("fat12_read", <<chk.m, chk.m.fs.files[i].reader, len>>)
                   m2 == [r.m EXCEPT !.fs.files[i].reader = r.reader]
               IN IF ~r.ok
                  THEN [m |-> f12_set_error(m2, F12_ERR_IO), ret |-> -1, data |-> r.data]
                  ELSE [m |-> [m2 EXCEPT !.fs.files[i].position = @ + r.n],
                        ret |-> r.n, data |-> r.data]

\* f12_write: [m, ret]; ret is the byte count or -1
f12_write(m, i, buf, len) ==
  IF ~m.fs.files[i].fs THEN [m |-> m, ret |-> -1]
  ELSE IF m.fs.files[i].mode # F12_MODE_WRITE
    THEN [m |-> f12_set_error(m, F12_ERR_INVALID), ret |-> -1]
  ELSE LET chk == Invoke("f12_check_writable", <<m>>)
       IN IF chk.err # F12_OK THEN [m |-> chk.m, ret |-> -1]
          ELSE LET w == Invoke("fat12_write", <<chk.m, chk.m.fs.files[i].writer, buf, len>>)
                   m2 == [w.m EXCEPT !.fs.files[i].writer = w.writer]
               IN IF ~w.ok THEN [m |-> f12_set_error(m2, F12_ERR_IO), ret |-> -1]
                  ELSE [m |-> [m2 EXCEPT !.fs.files[i].position = @ + w.n], ret |-> w.n]

RECURSIVE SkipLoop(_, _, _)
\* the skip loop of f12_seek: [m, reader, to_skip]
SkipLoop(m, rd, to_skip) ==
  IF to_skip = 0 THEN [m |-> m, reader |-> rd, to_skip |-> 0]
  ELSE LET r == Invoke("fat12_read", <<m, rd, Min(to_skip, 64)>>)
       IN IF ~r.ok \/ r.n = 0 THEN [m |-> r.m, reader |-> r.reader, to_skip |-> to_skip]
          ELSE SkipLoop(r.m, r.reader, to_skip - r.n)

\* f12_seek: [m, err]
f12_seek(m, i, offset) ==
  IF ~m.fs.files[i].fs THEN [m |-> m, err |-> F12_ERR_BAD_HANDLE]
  ELSE IF m.fs.files[i].mode # F12_MODE_READ
    THEN [m |-> f12_set_error(m, F12_ERR_INVALID), err |-> F12_ERR_INVALID]
  ELSE LET chk == Invoke("f12_check_disk", <<m>>)
       IN IF chk.err # F12_OK THEN chk
          ELSE LET o == Invoke("fat12_open", <<chk.m.fs.files[i].dirent, chk.m.fs.files[i].reader>>)
               IN IF o.err # FAT12_OK
                  THEN [m |-> f12_set_error(chk.m, fat12_to_f12_err(o.err)),
                        err |-> fat12_to_f12_err(o.err)]
                  ELSE LET s == Invoke("SkipLoop", <<chk.m, o.reader, offset>>)
                       IN [m |-> [s.m EXCEPT !.fs.files[i].reader = s.reader,
                                             !.fs.files[i].position = offset - s.to_skip],
                           err |-> F12_OK]

\* f12_read_at: [m, ret, data]
f12_read_at(m, i, offset, len) ==
  IF ~m.fs.files[i].fs THEN [m |-> m, ret |-> -1, data |-> Zero]
  ELSE LET saved_pos == m.fs.files[i].position
           s == Invoke("f12_seek", <<m, i, offset>>)
       IN IF s.err # F12_OK THEN [m |-> s.m, ret |-> -1, data |-> Zero]
          ELSE LET r == Invoke("f12_read", <<s.m, i, len>>)
               IN [m |-> Invoke("f12_seek", <<r.m, i, saved_pos>>).m, ret |-> r.ret, data |-> r.data]

\* f12_stat: [m, err, size, attr]
f12_stat(m, path0) ==
  LET chk == Invoke("f12_check_disk", <<m>>)
  IN IF chk.err # F12_OK THEN [m |-> chk.m, err |-> chk.err, size |-> 0, attr |-> 0]
     ELSE LET f == Invoke("fat12_find", <<chk.m, StripSlash(path0), Zero>>)
          IN IF f.err # FAT12_OK
             THEN [m |-> f12_set_error(f.m, fat12_to_f12_err(f.err)),
                   err |-> fat12_to_f12_err(f.err), size |-> 0, attr |-> 0]
             ELSE [m |-> f.m, err |-> F12_OK, size |-> dirent_size(f.entry),
                   attr |-> dirent_attr(f.entry)]

\* f12_delete: [m, err]
f12_delete(m, path0) ==
  LET chk == Invoke("f12_check_writable", <<m>>)
  IN IF chk.err # F12_OK THEN chk
     ELSE LET d == Invoke("fat12_delete", <<chk.m, StripSlash(path0)>>)
          IN IF d.err # FAT12_OK
             THEN [m |-> f12_set_error(d.m, fat12_to_f12_err(d.err)),
                   err |-> fat12_to_f12_err(d.err)]
             ELSE [m |-> d.m, err |-> F12_OK]

\* a directory iterator (f12_dir_t): fs tells whether dir->fs is set
ZeroDir == [fs |-> FALSE, index |-> 0]

\* f12_opendir: [m, err, dir]
f12_opendir(m, path0, dir) ==
  LET chk == Invoke("f12_check_disk", <<m>>)
  IN IF chk.err # F12_OK THEN [m |-> chk.m, err |-> chk.err, dir |-> dir]
     ELSE IF Len(StripSlash(path0)) # 0
       THEN [m |-> f12_set_error(chk.m, F12_ERR_NOT_FOUND), err |-> F12_ERR_NOT_FOUND,
             dir |-> dir]
     ELSE [m |-> chk.m, err |-> F12_OK, dir |-> [fs |-> TRUE, index |-> 0]]

RECURSIVE ReaddirLoop(_, _)
ReaddirLoop(m, dir) ==
  LET r == Invoke("fat12_read_root_entry", <<m, dir.index>>)
      next == [dir EXCEPT !.index = (@ + 1) % 65536]
  IN IF r.err # FAT12_OK
     THEN [m |-> f12_set_error(r.m, F12_ERR_EOF), err |-> F12_ERR_EOF, dir |-> dir,
           entry |-> Zero]
     ELSE IF fat12_entry_is_end(r.entry)
       THEN [m |-> f12_set_error(r.m, F12_ERR_EOF), err |-> F12_ERR_EOF, dir |-> next,
             entry |-> Zero]
     ELSE IF ~fat12_entry_valid(r.entry)
             \/ (dirent_attr(r.entry) \div FAT12_ATTR_VOLUME_ID) % 2 = 1
       THEN ReaddirLoop(r.m, next)
     ELSE [m |-> r.m, err |-> F12_OK, dir |-> next, entry |-> r.entry]

\* f12_readdir: [m, err, dir, entry]
f12_readdir(m, dir) ==
  IF ~dir.fs THEN [m |-> m, err |-> F12_ERR_INVALID, dir |-> dir, entry |-> Zero]
  ELSE LET chk == Invoke("f12_check_disk", <<m>>)
       IN IF chk.err # F12_OK
          THEN [m |-> chk.m, err |-> chk.err, dir |-> dir, entry |-> Zero]
          ELSE Invoke("ReaddirLoop", <<chk.m, dir>>)

f12_closedir(dir) == ZeroDir

(***************************************************************************)
(* Format (fat12_format, f12_format)                                        *)
(***************************************************************************)

\* a NULL volume label
NullLabel == <<-1>>

\* the boot sector fat12_format builds
FormatBoot(label) ==
  LET lab == [i \in 0..10 |->
                IF label = NullLabel THEN <<78, 79, 32, 78, 65, 77, 69, 32, 32, 32, 32>>[i + 1]
                ELSE IF i < Len(label) THEN Upper(label[i + 1]) ELSE 32]
  IN Splice(
       Blob({<<0, 235>>, <<1, 60>>, <<2, 144>>,
             <<3, 77>>, <<4, 83>>, <<5, 68>>, <<6, 79>>, <<7, 83>>, <<8, 53>>, <<9, 46>>,
             <<10, 48>>,
             <<11, SECTOR_SIZE % 256>>, <<12, SECTOR_SIZE \div 256>>, <<13, 1>>, <<14, 1>>,
             <<16, 2>>, <<17, 224>>, <<19, 2880 % 256>>, <<20, 2880 \div 256>>, <<21, 240>>,
             <<22, 9>>, <<24, SECTORS_PER_TRACK>>, <<26, 2>>,
             <<38, 41>>, <<39, 18>>, <<40, 52>>, <<41, 86>>, <<42, 120>>,
             <<54, 70>>, <<55, 65>>, <<56, 84>>, <<57, 49>>, <<58, 50>>, <<59, 32>>,
             <<60, 32>>, <<61, 32>>,
             <<510, 85>>, <<511, 170>>}),
       43, lab, 11)

\* the first sector of each FAT copy fat12_format builds
FormatFat == Blob({<<0, 240>>, <<1, 255>>, <<2, 255>>})

RECURSIVE LabelName(_, _)
\* number of label characters copied to the name field
LabelName(label, i) ==
  IF i < 8 /\ i < Len(label) /\ label[i + 1] # 46 THEN LabelName(label, i + 1) ELSE i

\* a root sector whose label entry carries the archive attribute
FormatRootAsFile(label) ==
  IF label = NullLabel THEN Zero
  ELSE Put(Splice(Zero, 0, [i \in 0..10 |-> 86], 11), 11, FAT12_ATTR_ARCHIVE)

\* the first root directory sector fat12_format builds
FormatRoot(label) ==
  IF label = NullLabel THEN Zero
  ELSE LET n == LabelName(label, 0)
           name == [i \in 0..7 |-> IF i < n THEN Upper(label[i + 1]) ELSE 32]
           ext == [j \in 0..2 |->
                     IF Len(label) > 8 /\ 8 + j < Len(label) THEN Upper(label[8 + j + 1]) ELSE 32]
       IN Put(Splice(Splice(Zero, 0, name, 8), 8, ext, 3), 11, FAT12_ATTR_VOLUME_ID)

\* the track fat12_format writes at (track, side)
FormatTrack(track, side, label, write_all_tracks) ==
  LET fat_start == 1
      spf == 9
      root_start == fat_start + 2 * spf
      root_secs == (224 * FAT12_DIR_ENTRY_SIZE + SECTOR_SIZE - 1) \div SECTOR_SIZE
      data_start == root_start + root_secs
      Sec(s) ==
        LET lba == (track * 2 + side) * SECTORS_PER_TRACK + s
        IN [sector_n |-> s + 1,
            data |-> IF lba = 0 THEN FormatBoot(label)
                     ELSE IF lba = fat_start \/ lba = fat_start + spf THEN FormatFat
                     ELSE IF lba = root_start THEN FormatRoot(label)
                     ELSE Zero,
            valid |-> write_all_tracks \/ lba < data_start]
  IN [track |-> track, side |-> side,
      sectors |-> [s \in 0..(SECTORS_PER_TRACK - 1) |-> Sec(s)]]

\* one pass of the loop body for n = track * 2 + side; r is [m, err, done]
FormatStep(r, n, label, write_all_tracks) ==
  LET t == Invoke("FormatTrack", <<n \div 2, n % 2, label, write_all_tracks>>)
      has_valid == \E s \in DOMAIN t.sectors : t.sectors[s].valid
      w == IF has_valid THEN io_write(r.m, t) ELSE [m |-> r.m, ok |-> TRUE]
  IN IF ~w.ok THEN [m |-> w.m, err |-> FAT12_ERR_WRITE, done |-> TRUE]
     ELSE [m |-> w.m, err |-> FAT12_OK,
           done |-> ~write_all_tracks /\ (n + 1) * SECTORS_PER_TRACK > 33]

RECURSIVE FormatRange(_, _, _, _, _)
\* the loop body for n = lo..hi in order, stopping at the first return
FormatRange(r, lo, hi, label, write_all_tracks) ==
  IF r.done \/ lo > hi THEN r
  ELSE IF lo = hi THEN FormatStep(r, lo, label, write_all_tracks)
  ELSE LET mid == (lo + hi) \div 2
       IN FormatRange(FormatRange(r, lo, mid, label, write_all_tracks),
                      mid + 1, hi, label, write_all_tracks)

\* the loop over tracks and sides from n = track * 2 + side on: [m, err]
FormatLoop(m, n, label, write_all_tracks) ==
  LET r == FormatRange([m |-> m, err |-> FAT12_OK, done |-> FALSE], n,
                       FLOPPY_TRACKS * 2 - 1, label, write_all_tracks)
  IN [m |-> r.m, err |-> r.err]

\* fat12_format over the drive's own callbacks: [m, err]
fat12_format(m, volume_label, write_all_tracks) ==
  Invoke("FormatLoop", <<m, 0, volume_label, write_all_tracks>>)

\* f12_format: [m, err]
f12_format(m, label, full) ==
  IF io_write_protected(m)
  THEN [m |-> f12_set_error(m, F12_ERR_WRITE_PROTECTED), err |-> F12_ERR_WRITE_PROTECTED]
  ELSE LET f == Invoke("fat12_format", <<m, label, full>>)
       IN IF f.err # FAT12_OK
          THEN [m |-> f12_set_error(f.m, fat12_to_f12_err(f.err)),
                err |-> fat12_to_f12_err(f.err)]
          ELSE LET m1 == IF f.m.fs.cache.live THEN [f.m EXCEPT !.fs.cache = cache_clear(@)]
                         ELSE f.m
               IN IF m1.fs.mounted THEN Invoke("f12_mount", <<m1>>) ELSE [m |-> m1, err |-> F12_OK]

(***************************************************************************)
(* Media images and caller inputs                                           *)
(***************************************************************************)

\* the boot sector written by vdisk_format_valid
BootSector ==
  Blob({<<0, 235>>, <<1, 60>>, <<2, 144>>,
        <<3, 77>>, <<4, 83>>, <<5, 68>>, <<6, 79>>, <<7, 83>>, <<8, 53>>, <<9, 46>>, <<10, 48>>,
        <<11, 0>>, <<12, 2>>, <<13, 1>>, <<14, 1>>, <<16, 2>>, <<17, 224>>,
        <<19, 64>>, <<20, 11>>, <<21, 240>>, <<22, 9>>, <<24, 18>>, <<26, 2>>,
        <<510, 85>>, <<511, 170>>})

\* the first FAT sector written by vdisk_format_valid: media descriptor and end marks
FatHead == Blob({<<0, 240>>, <<1, 255>>, <<2, 255>>})

\* vdisk_format_valid: an empty 1.44 MB FAT12 volume
vdisk_format_valid == (0 :> BootSector) @@ (1 :> FatHead) @@ (10 :> FatHead)

\* the drive and an f12_t that was never mounted
Machine(media) ==
  [media |-> media, dc |-> FALSE, wp |-> FALSE, fs |-> ZeroFs, reads |-> 0, writes |-> 0,
   fails |-> <<>>]

\* the drive-call counters are counted per API call
Start(m) == [m EXCEPT !.reads = 0, !.writes = 0]

\* paths and modes, as C strings
PathA == <<65>>

PathB == <<66>>

ModeR == <<114>>

ModeW == <<119>>

ModeA == <<97>>

\* a caller buffer of len bytes: zero except for a few marked offsets
Marked(len, fill) ==
  [len |-> len,
   data |-> [k \in {j \in {0, SECTOR_SIZE - 1, SECTOR_SIZE, len - 1} : j >= 0 /\ j < len} |-> fill]]

\* number of slots that are not closed
OpenCount(fs) == Cardinality({i \in Slots : fs.files[i].mode # F12_MODE_CLOSED})

\* number of slots in write mode
WriterCount(fs) == Cardinality({i \in Slots : fs.files[i].mode = F12_MODE_WRITE})

\* the two FAT copies of a canonical volume, as the media holds them
FatCopy(media, fat, f) ==
  [rel \in 0..(fat.bpb.sectors_per_fat - 1) |->
     MediaSector(media, fat.fat_start_sector + f * fat.bpb.sectors_per_fat + rel)]

\* the 12-bit entry of cluster in FAT copy f, as the media holds it
FatEntryOnMedia(media, fat, f, cluster) ==
  LET off == cluster + cluster \div 2
      base == fat.fat_start_sector + f * fat.bpb.sectors_per_fat
      b0 == Get(MediaSector(media, base + off \div SECTOR_SIZE), off % SECTOR_SIZE)
      b1 == Get(MediaSector(media, base + (off + 1) \div SECTOR_SIZE), (off + 1) % SECTOR_SIZE)
      v == b0 + 256 * b1
  IN IF cluster % 2 = 1 THEN v \div 16 ELSE v % 4096

\* root directory entry index, as the media holds it
DirEntryOnMedia(media, fat, index) ==
  Slice(MediaSector(media, fat.root_dir_start_sector
                           + (index * FAT12_DIR_ENTRY_SIZE) \div SECTOR_SIZE),
        (index * FAT12_DIR_ENTRY_SIZE) % SECTOR_SIZE, FAT12_DIR_ENTRY_SIZE)

(***************************************************************************)
(* State                                                                    *)
(*   m      the drive and the f12_t                                         *)
(*   dir    the caller's directory iterator                                 *)
(*   last   the last API call: its arguments, its result, the state before  *)
(*   gh     history: bytes handed to each writer, the first media, whether  *)
(*          every close of a writer and every delete so far succeeded       *)
(*   steps  number of calls made so far                                     *)
(***************************************************************************)
(***************************************************************************)
(* Reading a file back, as a caller would                                   *)
(***************************************************************************)

RECURSIVE ReadToEnd(_, _, _, _)
\* f12_read in a loop until it returns 0 or fails: [m, ok, data, len]
ReadToEnd(mm, i, data, len) ==
  LET r == Invoke("f12_read", <<mm, i, SECTOR_SIZE>>)
  IN IF r.ret < 0 THEN [m |-> r.m, ok |-> FALSE, data |-> data, len |-> len]
     ELSE IF r.ret = 0 THEN [m |-> r.m, ok |-> TRUE, data |-> data, len |-> len]
     ELSE ReadToEnd(r.m, i, Splice(data, len, r.data, r.ret), len + r.ret)

\* open for read, read to the end, close: [ok, data, len]
ReadBack(mm, path) ==
  LET o == Invoke("f12_open", <<mm, path, ModeR>>)
  IN IF o.slot = -1 THEN [ok |-> FALSE, data |-> Zero, len |-> 0]
     ELSE LET r == ReadToEnd(o.m, o.slot, Zero, 0)
          IN [ok |-> r.ok, data |-> r.data, len |-> r.len]

\* the media after a file holding buf was written to path on it
WithFile(media, path, buf) ==
  LET m0 == Invoke("f12_mount", <<Machine(media)>>).m
      o == Invoke("f12_open", <<m0, path, ModeW>>)
      w == Invoke("f12_write", <<o.m, o.slot, buf.data, buf.len>>)
      c == Invoke("f12_close", <<w.m, o.slot>>)
  IN IF m0.fs.mounted /\ o.slot # -1 /\ w.ret = buf.len /\ c.err = F12_OK
     THEN c.m.media ELSE media

RECURSIVE ChainFrom(_, _, _)
\* the clusters of the chain that starts at cluster, as the filesystem sees them
ChainFrom(mm, cluster, acc) ==
  IF cluster < 2 \/ fat12_is_eof(cluster) \/ fat12_is_bad(cluster) \/ cluster \in acc THEN acc
  ELSE LET g == Invoke("fat12_get_entry", <<mm, cluster>>)
       IN IF g.err # FAT12_OK THEN acc \cup {cluster}
          ELSE ChainFrom(g.m, g.next, acc \cup {cluster})

\* where the filesystem finds path's directory entry and chain
Located(mm, path) ==
  LET f == Invoke("fat12_find", <<[mm EXCEPT !.dc = FALSE], StripSlash(path), Zero>>)
  IN IF path = <<>> \/ ~mm.fs.mounted \/ f.err # FAT12_OK THEN [index |-> -1, chain |-> {}]
     ELSE [index |-> f.index, chain |-> ChainFrom(f.m, dirent_start_cluster(f.entry), {})]

\* one routine of the library called by name with its arguments
Invoke(op, a) ==
  CASE op = "f12_check_disk" -> f12_check_disk(a[1])
    [] op = "f12_check_writable" -> f12_check_writable(a[1])
    [] op = "f12_cached_read" -> f12_cached_read(a[1], a[2], a[3], a[4])
    [] op = "f12_cached_write" -> f12_cached_write(a[1], a[2])
    [] op = "fat12_init" -> fat12_init(a[1])
    [] op = "fat12_read_sector" -> fat12_read_sector(a[1], a[2])
    [] op = "fat12_get_entry" -> fat12_get_entry(a[1], a[2])
    [] op = "fat12_read_root_entry" -> fat12_read_root_entry(a[1], a[2])
    [] op = "FindLoop" -> FindLoop(a[1], a[2], a[3], a[4])
    [] op = "fat12_find" -> fat12_find(a[1], a[2], a[3])
    [] op = "fat12_write_batch_flush" -> fat12_write_batch_flush(a[1], a[2])
    [] op = "fat12_write_sector_batched" -> fat12_write_sector_batched(a[1], a[2], a[3], a[4])
    [] op = "fat12_read_sector_batched" -> fat12_read_sector_batched(a[1], a[2], a[3])
    [] op = "WriteFatCopies" -> WriteFatCopies(a[1], a[2], a[3], a[4], a[5])
    [] op = "fat12_set_entry" -> fat12_set_entry(a[1], a[2], a[3], a[4])
    [] op = "fat12_find_free_cluster_from" -> fat12_find_free_cluster_from(a[1], a[2])
    [] op = "fat12_write_cluster" -> fat12_write_cluster(a[1], a[2], a[3], a[4])
    [] op = "fat12_write_root_entry" -> fat12_write_root_entry(a[1], a[2], a[3], a[4])
    [] op = "fat12_read_cluster" -> fat12_read_cluster(a[1], a[2])
    [] op = "fat12_open" -> fat12_open(a[1], a[2])
    [] op = "ReadLoop" -> ReadLoop(a[1], a[2], a[3], a[4], a[5])
    [] op = "fat12_read" -> fat12_read(a[1], a[2], a[3])
    [] op = "FreeChain" -> FreeChain(a[1], a[2], a[3])
    [] op = "fat12_open_write" -> fat12_open_write(a[1], a[2])
    [] op = "AllocCluster" -> AllocCluster(a[1], a[2])
    [] op = "ReadBackCluster" -> ReadBackCluster(a[1], a[2], a[3], a[4])
    [] op = "WriteLoop" -> WriteLoop(a[1], a[2], a[3], a[4], a[5], a[6])
    [] op = "fat12_write" -> fat12_write(a[1], a[2], a[3], a[4])
    [] op = "fat12_close_write" -> fat12_close_write(a[1], a[2])
    [] op = "DeleteLoop" -> DeleteLoop(a[1], a[2], a[3])
    [] op = "fat12_delete" -> fat12_delete(a[1], a[2])
    [] op = "ScanFor" -> ScanFor(a[1], a[2], a[3], a[4])
    [] op = "free_step" -> free_step(a[1], a[2])
    [] op = "search_lap" -> search_lap(a[1], a[2])
    [] op = "f12_mount" -> f12_mount(a[1])
    [] op = "f12_close" -> f12_close(a[1], a[2])
    [] op = "CloseAll" -> CloseAll(a[1], a[2])
    [] op = "f12_unmount" -> f12_unmount(a[1])
    [] op = "f12_open" -> f12_open(a[1], a[2], a[3])
    [] op = "f12_read" -> f12_read(a[1], a[2], a[3])
    [] op = "f12_write" -> f12_write(a[1], a[2], a[3], a[4])
    [] op = "SkipLoop" -> SkipLoop(a[1], a[2], a[3])
    [] op = "f12_seek" -> f12_seek(a[1], a[2], a[3])
    [] op = "f12_read_at" -> f12_read_at(a[1], a[2], a[3], a[4])
    [] op = "f12_stat" -> f12_stat(a[1], a[2])
    [] op = "f12_delete" -> f12_delete(a[1], a[2])
    [] op = "f12_opendir" -> f12_opendir(a[1], a[2], a[3])
    [] op = "ReaddirLoop" -> ReaddirLoop(a[1], a[2])
    [] op = "f12_readdir" -> f12_readdir(a[1], a[2])
    [] op = "FormatTrack" -> FormatTrack(a[1], a[2], a[3], a[4])
    [] op = "FormatLoop" -> FormatLoop(a[1], a[2], a[3], a[4])
    [] op = "fat12_format" -> fat12_format(a[1], a[2], a[3])
    [] op = "f12_format" -> f12_format(a[1], a[2], a[3])
    [] op = "Located" -> Located(a[1], a[2])
    [] op = "ReadBack" -> ReadBack(a[1], a[2])
    [] op = "WithFile" -> WithFile(a[1], a[2], a[3])

(***************************************************************************)
(* The state: the drive with the filesystem on it, and the last call        *)
(***************************************************************************)
VARIABLES m, dir, last, gh, steps, bench

vars == <<m, dir, last, gh, steps, bench>>

\* bench holds the one component that a component-level specification drives on its
\* own (the cache, the drive, the decoder); the file API specifications leave it idle
NoBench == [unit |-> "none"]

\* per slot: the path and mode of the open, the bytes handed to write since, and what
\* reading the path returned and where its directory entry was just before the open
NoContent ==
  [path |-> <<>>, mode |-> <<>>, data |-> Zero, len |-> 0,
   prior |-> [ok |-> FALSE, data |-> Zero, len |-> 0], index |-> -1]

\* what a call could observe of the state before it
Pre(i) ==
  [mounted |-> m.fs.mounted, dc |-> m.dc, wp |-> m.wp, nopen |-> OpenCount(m.fs),
   mode |-> IF i \in Slots THEN m.fs.files[i].mode ELSE F12_MODE_CLOSED,
   modes |-> [j \in Slots |-> m.fs.files[j].mode], dirfs |-> dir.fs, fails |-> m.fails]

\* the record of a call, given where its path was located before it
CallAt(loc, op, slot, path, mode, ret, err, data) ==
  [op |-> op, slot |-> slot, path |-> path, mode |-> mode, ret |-> ret, err |-> err,
   data |-> data, chain |-> loc.chain, index |-> loc.index, pre |-> Pre(slot)]

Call(op, slot, path, mode, ret, err, data) ==
  CallAt(Invoke("Located", <<m, path>>), op, slot, path, mode, ret, err, data)

NoCall ==
  [op |-> "none", slot |-> -1, path |-> <<>>, mode |-> <<>>, ret |-> 0, err |-> F12_OK,
   data |-> Zero, chain |-> {}, index |-> -1,
   pre |-> [mounted |-> FALSE, dc |-> FALSE, wp |-> FALSE, nopen |-> 0,
            mode |-> F12_MODE_CLOSED, modes |-> [j \in Slots |-> F12_MODE_CLOSED],
            dirfs |-> FALSE, fails |-> <<>>]]

History(media) ==
  [content |-> [i \in Slots |-> NoContent], media0 |-> media, clean |-> TRUE]

\* start states: a drive holding media, the filesystem not mounted / mounted
Unmounted(media, wp) ==
  /\ m = [Machine(media) EXCEPT !.wp = wp]
  /\ dir = ZeroDir
  /\ last = NoCall
  /\ gh = History(media)
  /\ steps = 0
  /\ bench = NoBench

Mounted(media, wp) ==
  /\ m = Start(Invoke("f12_mount", <<[Machine(media) EXCEPT !.wp = wp]>>).m)
  /\ dir = ZeroDir
  /\ last = NoCall
  /\ gh = History(media)
  /\ steps = 0
  /\ bench = NoBench

\* ---- the API calls ----

Mount ==
  \E r \in {Invoke("f12_mount", <<Start(m)>>)} :
     /\ m' = r.m
     /\ last' = Call("mount", -1, <<>>, <<>>, 0, r.err, Zero)
     /\ gh' = [gh EXCEPT !.content = [i \in Slots |-> NoContent]]
     /\ steps' = steps + 1
     /\ UNCHANGED bench
     /\ UNCHANGED dir

Unmount ==
  \E r \in {Invoke("f12_unmount", <<Start(m)>>)} :
     /\ m' = r
     /\ last' = Call("unmount", -1, <<>>, <<>>, 0, F12_OK, Zero)
     /\ steps' = steps + 1
     /\ UNCHANGED bench
     /\ UNCHANGED <<dir, gh>>

Open(path, mode) ==
  \E r \in {Invoke("f12_open", <<Start(m), path, mode>>)} :
     /\ m' = r.m
     /\ last' = Call("open", r.slot, path, mode, r.slot,
                     IF r.slot = -1 THEN r.m.fs.last_error ELSE F12_OK, Zero)
     /\ gh' = IF r.slot = -1 THEN gh
              ELSE [gh EXCEPT !.content[r.slot] =
                      [path |-> path, mode |-> mode, data |-> Zero, len |-> 0,
                       prior |-> Invoke("ReadBack", <<Start(m), path>>),
                       index |-> Invoke("Located", <<m, path>>).index]]
     /\ steps' = steps + 1
     /\ UNCHANGED bench
     /\ UNCHANGED dir

Close(i) ==
  /\ m.fs.files[i].fs
  /\ \E r \in {Invoke("f12_close", <<Start(m), i>>)} :
        /\ m' = r.m
        /\ last' = Call("close", i, gh.content[i].path, gh.content[i].mode, 0, r.err,
                        gh.content[i].data)
        /\ gh' = [gh EXCEPT !.clean = @ /\ r.err = F12_OK]
        /\ steps' = steps + 1
        /\ UNCHANGED bench
        /\ UNCHANGED dir

Read(i, len) ==
  /\ m.fs.files[i].fs
  /\ \E r \in {Invoke("f12_read", <<Start(m), i, len>>)} :
        /\ m' = r.m
        /\ last' = Call("read", i, <<>>, <<>>, r.ret,
                        IF r.ret = -1 THEN r.m.fs.last_error ELSE F12_OK, r.data)
        /\ steps' = steps + 1
        /\ UNCHANGED bench
        /\ UNCHANGED <<dir, gh>>

Write(i, buf) ==
  /\ m.fs.files[i].fs
  /\ \E r \in {Invoke("f12_write", <<Start(m), i, buf.data, buf.len>>)} :
        /\ m' = r.m
        /\ last' = Call("write", i, <<>>, <<>>, r.ret,
                        IF r.ret = -1 THEN r.m.fs.last_error ELSE F12_OK, Zero)
        /\ gh' = IF r.ret <= 0 THEN gh
                 ELSE [gh EXCEPT !.content[i].data = Splice(@, gh.content[i].len, buf.data, r.ret),
                                 !.content[i].len = @ + r.ret]
        /\ steps' = steps + 1
        /\ UNCHANGED bench
        /\ UNCHANGED dir

Seek(i, offset) ==
  /\ m.fs.files[i].fs
  /\ \E r \in {Invoke("f12_seek", <<Start(m), i, offset>>)} :
        /\ m' = r.m
        /\ last' = Call("seek", i, <<>>, <<>>, offset, r.err, Zero)
        /\ steps' = steps + 1
        /\ UNCHANGED bench
        /\ UNCHANGED <<dir, gh>>

ReadAt(i, offset, len) ==
  /\ m.fs.files[i].fs
  /\ \E r \in {Invoke("f12_read_at", <<Start(m), i, offset, len>>)} :
        /\ m' = r.m
        /\ last' = Call("read_at", i, <<>>, <<>>, r.ret,
                        IF r.ret = -1 THEN r.m.fs.last_error ELSE F12_OK, r.data)
        /\ steps' = steps + 1
        /\ UNCHANGED bench
        /\ UNCHANGED <<dir, gh>>

Stat(path) ==
  \E r \in {Invoke("f12_stat", <<Start(m), path>>)} :
     /\ m' = r.m
     /\ last' = Call("stat", -1, path, <<>>, r.size, r.err, Zero)
     /\ steps' = steps + 1
     /\ UNCHANGED bench
     /\ UNCHANGED <<dir, gh>>

Delete(path) ==
  \E r \in {Invoke("f12_delete", <<Start(m), path>>)} :
     /\ m' = r.m
     /\ last' = Call("delete", -1, path, <<>>, 0, r.err, Zero)
     /\ gh' = [gh EXCEPT !.clean = @ /\ r.err \in {F12_OK, F12_ERR_NOT_FOUND}]
     /\ steps' = steps + 1
     /\ UNCHANGED bench
     /\ UNCHANGED dir

Opendir(path) ==
  \E r \in {Invoke("f12_opendir", <<Start(m), path, dir>>)} :
     /\ m' = r.m
     /\ dir' = r.dir
     /\ last' = Call("opendir", -1, path, <<>>, 0, r.err, Zero)
     /\ steps' = steps + 1
     /\ UNCHANGED bench
     /\ UNCHANGED gh

Readdir ==
  \E r \in {Invoke("f12_readdir", <<Start(m), dir>>)} :
     /\ m' = r.m
     /\ dir' = r.dir
     /\ last' = Call("readdir", -1, <<>>, <<>>, 0, r.err, r.entry)
     /\ steps' = steps + 1
     /\ UNCHANGED bench
     /\ UNCHANGED gh

Format(label, full) ==
  \E r \in {Invoke("f12_format", <<Start(m), label, full>>)} :
     /\ m' = r.m
     /\ last' = Call("format", -1, <<>>, <<>>, 0, r.err, Zero)
     /\ gh' = IF r.err = F12_OK /\ m.fs.mounted
              THEN [gh EXCEPT !.content = [i \in Slots |-> NoContent]] ELSE gh
     /\ steps' = steps + 1
     /\ UNCHANGED bench
     /\ UNCHANGED dir

\* ---- the drive's environment ----

\* the user swaps the disk: the change signal latches
DiskChange(media) ==
  /\ m' = [m EXCEPT !.media = media, !.dc = TRUE]
  /\ last' = [NoCall EXCEPT !.op = "swap"]
  /\ steps' = steps + 1
  /\ UNCHANGED bench
  /\ UNCHANGED <<dir, gh>>

\* the write-protect tab
SetWriteProtect(b) ==
  /\ m.wp # b
  /\ m' = [m EXCEPT !.wp = b]
  /\ last' = [NoCall EXCEPT !.op = "tab"]
  /\ steps' = steps + 1
  /\ UNCHANGED bench
  /\ UNCHANGED <<dir, gh>>

(***************************************************************************)
(* Writing, closing and deleting files on a mounted volume                  *)
(***************************************************************************)
MaxFileCalls == 3

Hello == [len |-> 5, data |-> BlobOfSeq(<<72, 101, 108, 108, 111>>)]

World == [len |-> 7, data |-> BlobOfSeq(<<44, 32, 87, 111, 114, 108, 100>>)]

\* eight clusters: the writer's batch fills up inside the call
Big == Marked(8 * SECTOR_SIZE, 7)

FileBufs == {Hello, World, Big}

\* a volume holding B then A, one cluster each
ImageBA ==
  Invoke("WithFile", <<Invoke("WithFile", <<vdisk_format_valid, PathB, Hello>>), PathA, World>>)

InitFiles == \E media \in {vdisk_format_valid, ImageBA} : Mounted(media, FALSE)

NextFiles ==
  \/ steps < MaxFileCalls /\ \E p \in {PathA, PathB}, md \in {ModeW, ModeA} : Open(p, md)
  \/ steps < MaxFileCalls /\ \E i \in Slots, b \in FileBufs : Write(i, b)
  \/ steps < MaxFileCalls /\ \E i \in Slots : Close(i)
  \/ steps < MaxFileCalls /\ \E p \in {PathA, PathB} : Delete(p)

SpecFiles == InitFiles /\ [][NextFiles]_vars

(***************************************************************************)
(* The same calls from a caller that keeps one file open at a time          *)
(***************************************************************************)
MaxSoloCalls == 4

NextSolo ==
  \/ steps < MaxSoloCalls /\ OpenCount(m.fs) = 0 /\ \E p \in {PathA, PathB}, md \in {ModeW, ModeA} : Open(p, md)
  \/ steps < MaxSoloCalls /\ \E i \in Slots, b \in FileBufs : Write(i, b)
  \/ steps < MaxSoloCalls /\ \E i \in Slots : Close(i)
  \/ steps < MaxSoloCalls /\ \E p \in {PathA, PathB} : Delete(p)

SpecSolo == InitFiles /\ [][NextSolo]_vars

(***************************************************************************)
(* Properties of writing, closing and deleting                              *)
(***************************************************************************)

\* the last call closed a writer and reported success
ClosedWriter ==
  last.op = "close" /\ last.err = F12_OK /\ last.pre.mode = F12_MODE_WRITE

\* C1: after a successful close of a file opened with mode "w", reading the path to
\* the end returns exactly the bytes handed to the write calls, and stat reports
\* their count, however the bytes were split over the write calls.
C1_WriteThenReadReturnsContent ==
  (ClosedWriter /\ last.mode = ModeW) =>
    LET r == Invoke("ReadBack", <<m, last.path>>)
        st == Invoke("f12_stat", <<m, last.path>>)
    IN /\ r.ok
       /\ r.len = gh.content[last.slot].len
       /\ r.data = gh.content[last.slot].data
       /\ st.err = F12_OK
       /\ st.size = gh.content[last.slot].len

C3_FatCopiesIdentical ==
  (WriterCount(m.fs) = 0 /\ gh.clean) =>
    FatCopy(m.media, m.fs.fat, 0) = FatCopy(m.media, m.fs.fat, 1)

\* C4: at most one file is open in write mode at any time.
C4_AtMostOneWriter == WriterCount(m.fs) <= 1

\* C5: after a successful delete of p, every cluster of p's former chain is free in
\* both FAT copies on the media, p's directory entry starts with 0xE5, and stat and
\* open-for-read of p report NotFound.
C5_DeletedPathIsGone ==
  (last.op = "delete" /\ last.err = F12_OK) =>
    /\ \A c \in last.chain : \A f \in {0, 1} : FatEntryOnMedia(m.media, m.fs.fat, f, c) = 0
    /\ Get(DirEntryOnMedia(m.media, m.fs.fat, last.index), 0) = 229
    /\ Invoke("f12_stat", <<m, last.path>>).err = F12_ERR_NOT_FOUND
    /\ LET o == Invoke("f12_open", <<m, last.path, ModeR>>)
       IN o.slot = -1 /\ o.m.fs.last_error = F12_ERR_NOT_FOUND

(***************************************************************************)
(* Disk changes, mounting and unmounting                                    *)
(***************************************************************************)
MaxChangeCalls == 4

Root == <<47>>

InitChange ==
  \E wp \in BOOLEAN, media \in {ImageBA} : Unmounted(media, wp) \/ Mounted(media, wp)

NextChange ==
  \/ steps < MaxChangeCalls /\ Mount
  \/ steps < MaxChangeCalls /\ Unmount
  \/ steps < MaxChangeCalls /\ \E md \in {ModeR, ModeW} : Open(PathA, md)
  \/ steps < MaxChangeCalls /\ \E i \in Slots : Read(i, 4)
  \/ steps < MaxChangeCalls /\ \E i \in Slots : Write(i, Hello)
  \/ steps < MaxChangeCalls /\ \E i \in Slots : Seek(i, 2)
  \/ steps < MaxChangeCalls /\ Stat(PathA)
  \/ steps < MaxChangeCalls /\ Delete(PathA)
  \/ steps < MaxChangeCalls /\ Opendir(Root)
  \/ steps < MaxChangeCalls /\ Readdir
  \/ steps < MaxChangeCalls /\ \E i \in Slots : Close(i)
  \/ steps < MaxChangeCalls /\ \E media \in {vdisk_format_valid, ImageBA} : DiskChange(media)

SpecChange == InitChange /\ [][NextChange]_vars

\* the last call went as far as the filesystem: a handle of the right mode, an
\* opened directory iterator, or a call that takes a path
ReachesFilesystem ==
  \/ last.op \in {"open", "stat", "delete", "opendir"}
  \/ last.op \in {"read", "seek"} /\ last.pre.mode = F12_MODE_READ
  \/ last.op = "write" /\ last.pre.mode = F12_MODE_WRITE
  \/ last.op = "readdir" /\ last.pre.dirfs

\* the sector the media holds at a cache key
KeySector(media, key) ==
  MediaSector(media, vdisk_lba(key \div 65536, (key \div 256) % 256, key % 256))

\* C6: the first call that reaches a mounted filesystem after the drive latched a disk
\* change fails with DiskChanged, and leaves the filesystem unmounted, the sector
\* cache empty and every file slot closed.
C6_FirstCallAfterChangeFails ==
  (ReachesFilesystem /\ last.pre.mounted /\ last.pre.dc) =>
    /\ last.err = F12_ERR_DISK_CHANGED
    /\ last.op \in {"open", "read", "write"} => last.ret = -1
    /\ ~m.fs.mounted
    /\ m.fs.cache.ents = <<>>
    /\ \A i \in Slots : m.fs.files[i].mode = F12_MODE_CLOSED

\* a read on an open reader met the disk change
C6_Witness ==
  /\ last.op = "read" /\ last.pre.mode = F12_MODE_READ
  /\ last.pre.mounted /\ last.pre.dc
  /\ last.err = F12_ERR_DISK_CHANGED

\* C7: while the filesystem is not mounted, open, stat, delete and opendir fail with
\* NotMounted without a sector read or track write and leave it unmounted; a mount on
\* valid media succeeds, with every file slot closed and a cache that holds only
\* sectors of the disk now in the drive.
C7_NotMountedUntilMount ==
  /\ (last.op \in {"open", "stat", "delete", "opendir"} /\ ~last.pre.mounted) =>
       /\ last.err = F12_ERR_NOT_MOUNTED
       /\ m.reads = 0 /\ m.writes = 0
       /\ ~m.fs.mounted
  /\ last.op = "mount" =>
       /\ last.err = F12_OK
       /\ m.fs.mounted
       /\ \A i \in Slots : m.fs.files[i].mode = F12_MODE_CLOSED /\ ~m.fs.files[i].fs
       /\ \A k \in 1..Len(m.fs.cache.ents) :
            m.fs.cache.ents[k].data = KeySector(m.media, m.fs.cache.ents[k].key)

\* a call was refused as not mounted after the disk was swapped for another one
C7_Witness ==
  /\ last.op = "stat" /\ ~last.pre.mounted
  /\ last.err = F12_ERR_NOT_MOUNTED
  /\ m.media # gh.media0


(***************************************************************************)
(* A write-protected disk                                                   *)
(***************************************************************************)
MaxProtectCalls == 4

InitProtect == \E media \in {ImageBA} : Mounted(media, FALSE)

NextProtect ==
  \/ steps < MaxProtectCalls /\ \E b \in BOOLEAN : SetWriteProtect(b)
  \/ steps < MaxProtectCalls /\ \E md \in {ModeR, ModeW} : Open(PathA, md)
  \/ steps < MaxProtectCalls /\ \E i \in Slots : Write(i, Hello)
  \/ steps < MaxProtectCalls /\ \E i \in Slots : Read(i, 4)
  \/ steps < MaxProtectCalls /\ \E i \in Slots : Close(i)
  \/ steps < MaxProtectCalls /\ Stat(PathA)
  \/ steps < MaxProtectCalls /\ Delete(PathA)
  \/ steps < MaxProtectCalls /\ Format(NullLabel, FALSE)
  \/ steps < MaxProtectCalls /\ Unmount
  \/ steps < MaxProtectCalls /\ DiskChange(ImageBA)

SpecProtect == InitProtect /\ [][NextProtect]_vars

\* the last step was a call of the file API
ApiCall == last.op \notin {"none", "swap", "tab"}

\* the last call was one that modifies the disk
WriteFlavored ==
  \/ last.op = "open" /\ last.mode # ModeR
  \/ last.op = "write" /\ last.pre.mode = F12_MODE_WRITE
  \/ last.op = "delete"

\* the last call was a read-only one that has what it needs: an existing path, a free
\* slot, a handle open for reading
ReadOnlyCall ==
  \/ last.op = "open" /\ last.mode = ModeR /\ last.index >= 0
       /\ last.pre.nopen < F12_MAX_OPEN_FILES
  \/ last.op = "stat" /\ last.index >= 0
  \/ last.op \in {"read", "seek", "close"} /\ last.pre.mode = F12_MODE_READ

\* C8: while the drive reports write-protected, no call of the file API issues a track
\* write, format fails with WriteProtected, and on a mounted filesystem with no disk
\* change pending, open for write, write and delete fail with WriteProtected while
\* open for read, read, stat and close of a reader succeed.
C8_WriteProtectedRefusesWrites ==
  (ApiCall /\ last.pre.wp) =>
    /\ m.writes = 0
    /\ last.op = "format" => last.err = F12_ERR_WRITE_PROTECTED
    /\ (last.pre.mounted /\ ~last.pre.dc /\ WriteFlavored) =>
         /\ last.err = F12_ERR_WRITE_PROTECTED
         /\ last.op \in {"open", "write"} => last.ret = -1
    /\ (last.pre.mounted /\ ~last.pre.dc /\ ReadOnlyCall) =>
         /\ last.err = F12_OK
         /\ last.op \in {"open", "read"} => last.ret >= 0

\* a writer that holds data was closed while the drive reported write-protected
C8_Witness ==
  /\ last.op = "close" /\ last.pre.mode = F12_MODE_WRITE /\ last.pre.wp
  /\ gh.content[last.slot].len > 0
  /\ last.err # F12_OK

\* C8 as stated: every write-flavored call on a mounted filesystem fails with
\* WriteProtected while the drive reports write-protected.
C8_AsStated ==
  (ApiCall /\ last.pre.wp /\ last.pre.mounted /\ WriteFlavored) =>
    last.err = F12_ERR_WRITE_PROTECTED

(***************************************************************************)
(* The open-file table                                                      *)
(***************************************************************************)
MaxSlotCalls == 5

\* a path with no directory entry on the volume
PathC == <<67>>

\* the slots the caller closes and reads: the first and the last of the table
EndSlots == {0, F12_MAX_OPEN_FILES - 1}

RECURSIVE OpenReaders(_, _, _)
\* the filesystem after n calls of f12_open(path, "r")
OpenReaders(mm, path, n) ==
  IF n = 0 THEN mm
  ELSE LET o == Invoke("f12_open", <<mm, path, ModeR>>)
       IN IF o.slot = -1 THEN o.m ELSE OpenReaders(o.m, path, n - 1)

\* start state: mounted, with n readers of PathA open
MountedWithReaders(media, n) ==
  /\ \E mm \in {Invoke("f12_mount", <<Machine(media)>>).m} :
       m = Start(OpenReaders(mm, PathA, n))
  /\ dir = ZeroDir
  /\ last = NoCall
  /\ gh = History(media)
  /\ steps = 0
  /\ bench = NoBench

InitSlots ==
  \E media \in {ImageBA}, n \in {0, F12_MAX_OPEN_FILES - 1} : MountedWithReaders(media, n)

NextSlots ==
  \/ steps < MaxSlotCalls /\ \E p \in {PathA, PathC} : Open(p, ModeR)
  \/ steps < MaxSlotCalls /\ Open(PathB, ModeW)
  \/ steps < MaxSlotCalls /\ \E i \in EndSlots : Close(i)
  \/ steps < MaxSlotCalls /\ \E i \in EndSlots : Read(i, 4)
  \/ steps < MaxSlotCalls /\ \E b \in BOOLEAN : SetWriteProtect(b)

SpecSlots == InitSlots /\ [][NextSlots]_vars

\* the last call was an open that passed the mount, disk-change and write-protect checks
OpenChecked ==
  /\ last.op = "open"
  /\ last.pre.mounted /\ ~last.pre.dc
  /\ last.mode = ModeR \/ ~last.pre.wp

\* C9: at most 10 files are open; an open that passes the mount, disk and write-protect
\* checks while 10 files are open fails with TooManyOpen; a failed open leaves every
\* slot as it was, the open handles still readable; every close, also one whose flush
\* fails, leaves its slot closed, and an open for read of an existing path succeeds
\* whenever fewer than 10 files are open.
C9_OpenTableBounded ==
  /\ OpenCount(m.fs) <= F12_MAX_OPEN_FILES
  /\ (OpenChecked /\ last.pre.nopen = F12_MAX_OPEN_FILES) =>
       last.ret = -1 /\ last.err = F12_ERR_TOO_MANY
  /\ (last.op = "open" /\ last.ret = -1 /\ ~last.pre.dc) =>
       \A j \in Slots : m.fs.files[j].mode = last.pre.modes[j]
  /\ (last.op = "read" /\ last.pre.mode = F12_MODE_READ) => last.ret >= 0
  /\ last.op = "close" =>
       /\ m.fs.files[last.slot].mode = F12_MODE_CLOSED
       /\ \A j \in Slots \ {last.slot} : m.fs.files[j].mode = last.pre.modes[j]
  /\ (OpenChecked /\ last.mode = ModeR /\ last.index >= 0
        /\ last.pre.nopen < F12_MAX_OPEN_FILES) =>
       /\ last.ret \in Slots
       /\ last.pre.modes[last.ret] = F12_MODE_CLOSED
       /\ m.fs.files[last.ret].mode = F12_MODE_READ

\* with the table full, the close of a writer failed in its flush, and the open that
\* followed got the slot of that writer
C9_Witness ==
  /\ last.op = "open" /\ last.ret = F12_MAX_OPEN_FILES - 1
  /\ last.pre.nopen = F12_MAX_OPEN_FILES - 1
  /\ ~gh.clean

(***************************************************************************)
(* A caller that only reads                                                 *)
(***************************************************************************)
MaxReadCalls == 6

InitRead == \E media \in {vdisk_format_valid, ImageBA} : Unmounted(media, FALSE)

NextRead ==
  \/ steps < MaxReadCalls /\ Mount
  \/ steps < MaxReadCalls /\ Unmount
  \/ steps < MaxReadCalls /\ \E p \in {PathA, PathC} : Open(p, ModeR)
  \/ steps < MaxReadCalls /\ \E i \in Slots : Read(i, 4)
  \/ steps < MaxReadCalls /\ \E i \in Slots : Seek(i, 2)
  \/ steps < MaxReadCalls /\ \E i \in Slots : ReadAt(i, 2, 4)
  \/ steps < MaxReadCalls /\ Stat(PathA)
  \/ steps < MaxReadCalls /\ Opendir(Root)
  \/ steps < MaxReadCalls /\ Readdir
  \/ steps < MaxReadCalls /\ \E i \in Slots : Close(i)

SpecRead == InitRead /\ [][NextRead]_vars

\* C10: on validly formatted media, mount, any sequence of open for read, read, seek,
\* read_at, stat, opendir, readdir and close, and unmount issue no track write and
\* leave the media as it was.
C10_ReadOnlyLeavesMedia ==
  /\ m.writes = 0
  /\ m.media = gh.media0

\* a mounted volume was unmounted while a reader that had read data was still open
C10_Witness ==
  /\ last.op = "unmount" /\ last.pre.mounted
  /\ last.pre.nopen > 0
  /\ \E i \in Slots : m.fs.files[i].reader.bytes_read > 0
  /\ ~m.fs.mounted

(***************************************************************************)
(* lru.c: the cache on its own, entry by entry                              *)
(***************************************************************************)

\* a null pointer; an entry is pointed to by its index in the storage
NULL == -1

\* lru_t *lru = NULL
NullLru ==
  [null |-> TRUE, storage |-> <<>>, head |-> NULL, tail |-> NULL,
   max_entries |-> 0, elem_size |-> 0, count |-> 0]

\* one lru_entry_t of the calloc'ed storage; value is the element that follows the header
ZeroEntry == [key |-> 0, prev |-> NULL, next |-> NULL, occupied |-> FALSE, value |-> 0]

lru_entry_at(lru, index) == lru.storage[index]

lru_entry_value(lru, entry) == IF entry = NULL THEN NULL ELSE lru.storage[entry].value

lru_unlink(lru, entry) ==
  LET e == lru_entry_at(lru, entry)
      l1 == IF e.prev # NULL THEN [lru EXCEPT !.storage[e.prev].next = e.next]
            ELSE [lru EXCEPT !.head = e.next]
      l2 == IF e.next # NULL THEN [l1 EXCEPT !.storage[e.next].prev = e.prev]
            ELSE [l1 EXCEPT !.tail = e.prev]
  IN [l2 EXCEPT !.storage[entry].prev = NULL, !.storage[entry].next = NULL]

lru_push_front(lru, entry) ==
  LET l1 == [lru EXCEPT !.storage[entry].prev = NULL, !.storage[entry].next = lru.head]
      l2 == IF lru.head # NULL THEN [l1 EXCEPT !.storage[lru.head].prev = entry] ELSE l1
      l3 == [l2 EXCEPT !.head = entry]
  IN IF l3.tail = NULL THEN [l3 EXCEPT !.tail = entry] ELSE l3

\* the first occupied entry that holds key, NULL if none
lru_find(lru, key) ==
  LET hits == {i \in 0..(lru.max_entries - 1) :
                 lru_entry_at(lru, i).occupied /\ lru_entry_at(lru, i).key = key}
  IN IF hits = {} THEN NULL ELSE CHOOSE i \in hits : \A j \in hits : i <= j

\* the first entry that is not occupied, NULL if the cache is full
lru_find_free(lru) ==
  LET free == {i \in 0..(lru.max_entries - 1) : ~lru_entry_at(lru, i).occupied}
  IN IF free = {} THEN NULL ELSE CHOOSE i \in free : \A j \in free : i <= j

lru_init(max_entries, elem_size) ==
  IF max_entries = 0 \/ elem_size = 0 THEN NullLru
  ELSE [null |-> FALSE, storage |-> [i \in 0..(max_entries - 1) |-> ZeroEntry],
        head |-> NULL, tail |-> NULL, max_entries |-> max_entries,
        elem_size |-> elem_size, count |-> 0]

\* the "move to front" of lru_get, lru_set and lru_get_or_create
MoveToFront(lru, entry) ==
  IF entry # lru.head THEN lru_push_front(lru_unlink(lru, entry), entry) ELSE lru

\* a get that leaves the entry where it is in the list
GetWithoutMoveToFront(lru, key) ==
  IF lru.null THEN [lru |-> lru, ptr |-> NULL]
  ELSE [lru |-> lru, ptr |-> lru_find(lru, key)]

\* lru_get: [lru, ptr], ptr the entry whose value is returned or NULL
lru_get(lru, key) ==
  IF lru.null THEN [lru |-> lru, ptr |-> NULL]
  ELSE LET entry == lru_find(lru, key)
       IN IF entry = NULL THEN [lru |-> lru, ptr |-> NULL]
          ELSE [lru |-> MoveToFront(lru, entry), ptr |-> entry]

\* the eviction of lru_set and lru_get_or_create: [lru, entry], entry NULL when there
\* is neither a free entry nor a tail
TakeSlot(lru) ==
  LET free == lru_find_free(lru)
  IN IF free # NULL THEN [lru |-> lru, entry |-> free]
     ELSE IF lru.tail = NULL THEN [lru |-> lru, entry |-> NULL]
     ELSE [lru |-> [lru_unlink(lru, lru.tail) EXCEPT !.count = @ - 1], entry |-> lru.tail]

\* a set that moves an existing entry to the front and forgets to copy the element
SetKeepsOldValue(lru, key, value) ==
  IF lru.null THEN [lru |-> lru, ptr |-> NULL]
  ELSE LET entry == lru_find(lru, key)
       IN IF entry # NULL
          THEN [lru |-> MoveToFront(lru, entry), ptr |-> entry]
          ELSE LET s == TakeSlot(lru)
               IN IF s.entry = NULL THEN [lru |-> s.lru, ptr |-> NULL]
                  ELSE LET l1 == [s.lru EXCEPT !.storage[s.entry].key = key,
                                               !.storage[s.entry].occupied = TRUE,
                                               !.storage[s.entry].value =
                                                   IF value # NULL THEN value ELSE 0]
                       IN [lru |-> [lru_push_front(l1, s.entry) EXCEPT !.count = @ + 1],
                           ptr |-> s.entry]

\* lru_set: value is the element to copy or NULL
lru_set(lru, key, value) ==
  IF lru.null THEN [lru |-> lru, ptr |-> NULL]
  ELSE LET entry == lru_find(lru, key)
       IN IF entry # NULL
          THEN LET l1 == IF value # NULL THEN [lru EXCEPT !.storage[entry].value = value]
                         ELSE lru
               IN [lru |-> MoveToFront(l1, entry), ptr |-> entry]
          ELSE LET s == TakeSlot(lru)
               IN IF s.entry = NULL THEN [lru |-> s.lru, ptr |-> NULL]
                  ELSE LET l1 == [s.lru EXCEPT !.storage[s.entry].key = key,
                                               !.storage[s.entry].occupied = TRUE,
                                               !.storage[s.entry].value =
                                                   IF value # NULL THEN value ELSE 0]
                       IN [lru |-> [lru_push_front(l1, s.entry) EXCEPT !.count = @ + 1],
                           ptr |-> s.entry]

\* lru_get_or_create: [lru, ptr, is_new]; a new entry keeps the bytes its slot held
lru_get_or_create(lru, key) ==
  IF lru.null THEN [lru |-> lru, ptr |-> NULL, is_new |-> FALSE]
  ELSE LET entry == lru_find(lru, key)
       IN IF entry # NULL
          THEN [lru |-> MoveToFront(lru, entry), ptr |-> entry, is_new |-> FALSE]
          ELSE LET s == TakeSlot(lru)
               IN IF s.entry = NULL THEN [lru |-> s.lru, ptr |-> NULL, is_new |-> TRUE]
                  ELSE LET l1 == [s.lru EXCEPT !.storage[s.entry].key = key,
                                               !.storage[s.entry].occupied = TRUE]
                       IN [lru |-> [lru_push_front(l1, s.entry) EXCEPT !.count = @ + 1],
                           ptr |-> s.entry, is_new |-> TRUE]

\* a remove that forgets the count
RemoveKeepsCount(lru, key) ==
  IF lru.null THEN [lru |-> lru, ok |-> FALSE]
  ELSE LET entry == lru_find(lru, key)
       IN IF entry = NULL THEN [lru |-> lru, ok |-> FALSE]
          ELSE [lru |-> [lru_unlink(lru, entry) EXCEPT !.storage[entry].key = 0,
                                                    !.storage[entry].occupied = FALSE],
                ok |-> TRUE]

\* lru_remove: [lru, ok]
lru_remove(lru, key) ==
  IF lru.null THEN [lru |-> lru, ok |-> FALSE]
  ELSE LET entry == lru_find(lru, key)
       IN IF entry = NULL THEN [lru |-> lru, ok |-> FALSE]
          ELSE [lru |-> [lru_unlink(lru, entry) EXCEPT !.storage[entry].key = 0,
                                                    !.storage[entry].occupied = FALSE,
                                                    !.count = @ - 1],
                ok |-> TRUE]

lru_clear(lru) ==
  IF lru.null THEN lru
  ELSE [lru EXCEPT !.storage = [i \in DOMAIN lru.storage |->
                                  IF lru.storage[i].occupied
                                  THEN [lru.storage[i] EXCEPT !.key = 0, !.occupied = FALSE,
                                                              !.prev = NULL, !.next = NULL]
                                  ELSE lru.storage[i]],
                   !.head = NULL, !.tail = NULL, !.count = 0]

lru_count(lru) == IF lru.null THEN 0 ELSE lru.count

(***************************************************************************)
(* A caller of the cache: init, get, set, get_or_create, remove, clear      *)
(***************************************************************************)
MaxLruCalls == 5

\* keys and elements the caller uses; key 0 is also what a removed entry is reset to
LruKeys == 0..3

LruValues == {1, 2}

LruSizes == {0, 1, 3}

\* what was given for a key: a set of at most one element, empty when nothing was given
NoValue == {}

Without(s, k) == SelectSeq(s, LAMBDA x : x # k)

InSeq(s, k) == \E i \in 1..Len(s) : s[i] = k

\* the caller's record of its accesses: the keys it inserted and did not remove or
\* clear, latest access first, cut to the capacity it asked for
Touched(order, max_entries, k) ==
  IF InSeq(order, k) THEN <<k>> \o Without(order, k)
  ELSE IF Len(order) < max_entries THEN <<k>> \o order
  ELSE <<k>> \o SubSeq(order, 1, Len(order) - 1)

\* the elements the caller gave, kept for the keys of its record only
Kept(given, order) == [k \in LruKeys |-> IF InSeq(order, k) THEN given[k] ELSE NoValue]

LruBench(lru, order, given, op, key, value, ptr, flag) ==
  [unit |-> "lru", lru |-> lru, order |-> order, given |-> Kept(given, order),
   op |-> op, key |-> key, value |-> value, ptr |-> ptr, flag |-> flag,
   before |-> IF bench.unit = "lru" THEN bench.lru ELSE NullLru,
   order0 |-> IF bench.unit = "lru" THEN bench.order ELSE <<>>]

NoneGiven == [k \in LruKeys |-> NoValue]

InitLru ==
  /\ m = Machine(vdisk_format_valid)
  /\ dir = ZeroDir
  /\ last = NoCall
  /\ gh = History(vdisk_format_valid)
  /\ steps = 0
  /\ \E n \in LruSizes :
       bench = [unit |-> "lru", lru |-> lru_init(n, 1), order |-> <<>>,
                given |-> NoneGiven, op |-> "none", key |-> 0, value |-> NULL,
                ptr |-> NULL, flag |-> FALSE, before |-> NullLru, order0 |-> <<>>]

LruStep(b) ==
  /\ bench' = b
  /\ steps' = steps + 1
  /\ UNCHANGED <<m, dir, last, gh>>

LruInit(max_entries) ==
  LruStep(LruBench(lru_init(max_entries, 1), <<>>, NoneGiven, "init", 0, NULL, NULL, FALSE))

LruGet(k) ==
  LET r == lru_get(bench.lru, k)
      order == IF InSeq(bench.order, k) THEN <<k>> \o Without(bench.order, k)
               ELSE bench.order
  IN LruStep(LruBench(r.lru, order, bench.given, "get", k, NULL, r.ptr, FALSE))

LruSet(k, v) ==
  LET r == lru_set(bench.lru, k, v)
      order == IF bench.lru.null THEN <<>>
               ELSE Touched(bench.order, bench.lru.max_entries, k)
      given == IF v # NULL THEN [bench.given EXCEPT ![k] = {v}]
               ELSE IF InSeq(bench.order, k) THEN bench.given
               ELSE [bench.given EXCEPT ![k] = NoValue]
  IN LruStep(LruBench(r.lru, order, given, "set", k, v, r.ptr, FALSE))

LruGetOrCreate(k) ==
  LET r == lru_get_or_create(bench.lru, k)
      order == IF bench.lru.null THEN <<>>
               ELSE Touched(bench.order, bench.lru.max_entries, k)
      given == IF InSeq(bench.order, k) THEN bench.given
               ELSE [bench.given EXCEPT ![k] = NoValue]
  IN LruStep(LruBench(r.lru, order, given, "get_or_create", k, NULL, r.ptr, r.is_new))

LruRemove(k) ==
  LET r == lru_remove(bench.lru, k)
  IN LruStep(LruBench(r.lru, Without(bench.order, k), bench.given, "remove", k, NULL,
                      NULL, r.ok))

LruClear ==
  LruStep(LruBench(lru_clear(bench.lru), <<>>, bench.given, "clear", 0, NULL, NULL, FALSE))

NextLru ==
  \/ steps < MaxLruCalls /\ \E n \in LruSizes : LruInit(n)
  \/ steps < MaxLruCalls /\ \E k \in LruKeys : LruGet(k)
  \/ steps < MaxLruCalls /\ \E k \in LruKeys, v \in LruValues \cup {NULL} : LruSet(k, v)
  \/ steps < MaxLruCalls /\ \E k \in LruKeys : LruGetOrCreate(k)
  \/ steps < MaxLruCalls /\ \E k \in LruKeys : LruRemove(k)
  \/ steps < MaxLruCalls /\ LruClear

SpecLru == InitLru /\ [][NextLru]_vars

(***************************************************************************)
(* Properties of the cache                                                  *)
(***************************************************************************)

\* the keys held by occupied entries
Resident(lru) ==
  IF lru.null THEN {}
  ELSE {lru.storage[i].key : i \in {j \in DOMAIN lru.storage : lru.storage[j].occupied}}

\* the element the cache holds for a resident key
ValueOf(lru, k) == lru_entry_value(lru, lru_find(lru, k))

\* C11: for every key, a get returns the element given by the latest set of that key
\* while the key was not evicted, removed or cleared since, whatever was done to other
\* keys in between, and returns nothing for a key that is not resident.
C11_GetReturnsLatestSet ==
  bench.unit = "lru" =>
    \A k \in LruKeys :
      LET g == lru_get(bench.lru, k)
      IN /\ InSeq(bench.order, k) => g.ptr # NULL
         /\ (InSeq(bench.order, k) /\ bench.given[k] # NoValue) =>
               {lru_entry_value(g.lru, g.ptr)} = bench.given[k]
         /\ ~InSeq(bench.order, k) => g.ptr = NULL
         /\ k \notin Resident(bench.lru) => g.ptr = NULL

\* a get hit whose key was set two calls or more ago, with other keys touched since
C11_Witness ==
  /\ bench.unit = "lru" /\ bench.op = "get" /\ bench.ptr # NULL
  /\ Len(bench.order) = 3 /\ bench.order0[3] = bench.key
  /\ bench.given[bench.key] # NoValue
  /\ {lru_entry_value(bench.lru, bench.ptr)} = bench.given[bench.key]

\* the last call inserted a key that was not resident into a cache that held
\* max_entries keys
InsertedIntoFull ==
  /\ bench.unit = "lru" /\ bench.op \in {"set", "get_or_create"}
  /\ ~bench.before.null
  /\ Len(bench.order0) = bench.before.max_entries
  /\ ~InSeq(bench.order0, bench.key)

\* C12: an insertion of a new key (set or get_or_create) into a cache that holds
\* max_entries keys removes exactly one key, the one whose last access is the oldest;
\* every other key stays resident with its element unchanged.
C12_EvictsLeastRecentlyUsed ==
  InsertedIntoFull =>
    LET oldest == bench.order0[Len(bench.order0)]
    IN /\ Resident(bench.before) = {bench.order0[i] : i \in 1..Len(bench.order0)}
       /\ Resident(bench.lru) = (Resident(bench.before) \ {oldest}) \cup {bench.key}
       /\ \A k \in Resident(bench.before) \ {oldest} :
            ValueOf(bench.lru, k) = ValueOf(bench.before, k)
       /\ bench.ptr # NULL /\ bench.lru.storage[bench.ptr].key = bench.key

\* an eviction from a cache of three whose oldest key is not the one inserted first
C12_Witness ==
  /\ InsertedIntoFull
  /\ bench.before.max_entries = 3
  /\ bench.before.storage[0].key # bench.order0[3]
  /\ bench.order0[3] \notin Resident(bench.lru)

\* C13: no key is held by two occupied entries, count is the number of resident keys,
\* and count never exceeds max_entries.
C13_KeysUniqueAndCounted ==
  (bench.unit = "lru" /\ ~bench.lru.null) =>
    LET occupied == {i \in DOMAIN bench.lru.storage : bench.lru.storage[i].occupied}
    IN /\ \A i, j \in occupied :
            bench.lru.storage[i].key = bench.lru.storage[j].key => i = j
       /\ bench.lru.count = Cardinality(Resident(bench.lru))
       /\ bench.lru.count = Cardinality(occupied)
       /\ bench.lru.count <= bench.lru.max_entries
       /\ lru_count(bench.lru) = Len(bench.order)

\* get_or_create took the entry that an earlier remove or clear had freed
C13_Witness ==
  /\ bench.unit = "lru" /\ bench.op = "get_or_create" /\ bench.flag
  /\ bench.before.count = 2 /\ bench.lru.count = 3
  /\ bench.ptr = 0

\* ---------------------------------------------------------------------------
\* floppy.c: the drive.  The hardware behind the pins is the drive of
\* tests/pio_sim.c: a head that the step line moves between cylinders 0 and 79,
\* a track-0 sensor, an index pulse, a write-protect tab, and one recorded track
\* for every cylinder and side.  A value d holds the floppy_t (f), the drive,
\* the level of the output pins (0 = pulled low = asserted), the clock and the
\* trace of what the running operation did to the pins.
\* ---------------------------------------------------------------------------
RECURSIVE DriveCall(_, _)

DIR_INWARD == 1

DIR_OUTWARD == 2

IDLE_CHECK_INTERVAL_MS == 1000

FLOPPY_IDLE_TIMEOUT_MS == 20000

FLOPPY_WRITE_ATTEMPTS == 3

FLOPPY_READ_TRACK_ATTEMPTS == 15

FLOPPY_HEAD_SETTLE_MS == 20

Sectors == 1..SECTORS_PER_TRACK

\* the 512 data bytes of a sector stand as one value; the sectors of a fresh
\* disk differ from each other, here by their number
FormattedTrack(c, h) ==
  [n \in Sectors |-> [track |-> c, side |-> h, sector_n |-> n, data |-> n, valid |-> TRUE]]

Emit(d, ev, arg) == [d EXCEPT !.trace = Append(@, [ev |-> ev, arg |-> arg])]

\* what the drive has recorded on the cylinder and side under the head
pio_sim_track(drive, c, h) ==
  IF <<c, h>> \in DOMAIN drive.tracks THEN drive.tracks[<<c, h>>] ELSE FormattedTrack(c, h)

\* gpio_set_dir as the drive sees it: the line goes low or is released
gpio_set_dir(drive, pin, going_low) ==
  IF ~drive.present THEN drive
  ELSE IF pin = "direction" THEN [drive EXCEPT !.step_direction_inward = going_low]
  ELSE IF pin = "step" /\ going_low THEN
    IF drive.step_direction_inward /\ drive.head_track < 79
      THEN [drive EXCEPT !.head_track = @ + 1]
    ELSE IF ~drive.step_direction_inward /\ drive.head_track > 0
      THEN [drive EXCEPT !.head_track = @ - 1]
    ELSE drive
  ELSE IF pin = "side_select" THEN [drive EXCEPT !.head_side = IF going_low THEN 1 ELSE 0]
  ELSE IF pin = "write_gate" THEN
    IF going_low THEN [drive EXCEPT !.write_capture = <<>>]
    ELSE IF drive.write_capture # <<>> THEN
      IF drive.fault_writes_remaining > 0
        THEN [drive EXCEPT !.fault_writes_remaining = @ - 1]
        ELSE [drive EXCEPT !.tracks =
                [k \in DOMAIN @ \cup {<<drive.head_track, drive.head_side>>} |->
                   IF k = <<drive.head_track, drive.head_side>>
                     THEN drive.write_capture ELSE @[k]]]
    ELSE drive
  ELSE drive

gpio_put_oc(d, pin, value) ==
  Emit([d EXCEPT !.drive = gpio_set_dir(@, pin, value = 0), !.pins[pin] = value],
       pin, value)

\* the level a read of an input pin finds
gpio_get(d, pin) ==
  IF ~d.drive.present THEN 1
  ELSE IF pin = "track0" THEN (IF d.drive.head_track # 0 THEN 1 ELSE 0)
  ELSE IF pin = "write_protect" THEN (IF d.drive.write_protected THEN 0 ELSE 1)
  ELSE IF pin = "index" THEN d.drive.index
  ELSE 1

sleep_ms(d, ms) == Emit(d, "sleep_ms", ms)

sleep_us(d, us) == Emit(d, "sleep_us", us)

floppy_at_track0(d) == gpio_get(d, "track0") = 0

floppy_write_protected(d) == gpio_get(d, "write_protect") = 0

floppy_init(drive) ==
  [f |-> [track |-> 0, track0_confirmed |-> FALSE, disk_change_flag |-> FALSE,
          motor_on |-> FALSE, selected |-> FALSE, auto_motor |-> TRUE,
          last_io_time_ms |-> 0],
   drive |-> drive,
   pins |-> [p \in {"drive_select", "motor_enable", "direction", "step", "write_data",
                    "write_gate", "side_select", "density"} |-> 1],
   now |-> 0,
   trace |-> <<>>]

floppy_select(d, on) ==
  IF d.f.selected = on THEN d
  ELSE LET d1 == gpio_put_oc(d, "drive_select", IF on THEN 0 ELSE 1)
       IN sleep_ms([d1 EXCEPT !.f.selected = on], 10)

floppy_motor_on(d) ==
  IF d.f.motor_on THEN d
  ELSE LET d1 == gpio_put_oc(d, "motor_enable", 0)
       IN sleep_ms([d1 EXCEPT !.f.motor_on = TRUE], 750)

floppy_motor_off(d) ==
  IF ~d.f.motor_on THEN d
  ELSE LET d1 == gpio_put_oc(d, "motor_enable", 1)
       IN [d1 EXCEPT !.f.motor_on = FALSE]

StepWithoutCount(d, direction) ==
  LET d1 == gpio_put_oc(d, "direction", IF direction = DIR_INWARD THEN 0 ELSE 1)
      d2 == gpio_put_oc(sleep_us(d1, 10), "step", 0)
      d3 == gpio_put_oc(sleep_us(d2, 10), "step", 1)
      d4 == sleep_ms(d3, 10)
  IN Emit(d4, "f.track", d4.f.track)

floppy_step(d, direction) ==
  LET d1 == gpio_put_oc(d, "direction", IF direction = DIR_INWARD THEN 0 ELSE 1)
      d2 == gpio_put_oc(sleep_us(d1, 10), "step", 0)
      d3 == gpio_put_oc(sleep_us(d2, 10), "step", 1)
      d4 == sleep_ms(d3, 10)
      d5 == IF direction = DIR_INWARD /\ d4.f.track < FLOPPY_TRACKS - 1
              THEN [d4 EXCEPT !.f.track = @ + 1]
            ELSE IF direction = DIR_OUTWARD /\ d4.f.track > 0
              THEN [d4 EXCEPT !.f.track = @ - 1]
            ELSE d4
  IN Emit(d5, "f.track", d5.f.track)

\* one round of the loop of floppy_seek_track0
seek_track0_round(r) ==
  IF r.status # "" THEN r
  ELSE LET d1 == Emit(r.d, "track0", gpio_get(r.d, "track0"))
       IN IF floppy_at_track0(r.d)
            THEN [d |-> [d1 EXCEPT !.f.track = 0, !.f.track0_confirmed = TRUE],
                  status |-> "FLOPPY_OK"]
            ELSE [d |-> DriveCall("floppy_step", <<d1, DIR_OUTWARD>>), status |-> ""]

\* n rounds of it, one after the other
RECURSIVE seek_track0_loop(_, _)
seek_track0_loop(r, n) ==
  IF r.status # "" \/ n = 0 THEN r
  ELSE IF n = 1 THEN seek_track0_round(r)
  ELSE seek_track0_loop(seek_track0_loop(r, n \div 2), n - (n \div 2))

floppy_seek_track0(d) ==
  LET r == seek_track0_loop([d |-> [d EXCEPT !.f.track0_confirmed = FALSE], status |-> ""],
                            90)
  IN IF r.status = "" THEN [d |-> r.d, status |-> "FLOPPY_ERR_NO_TRACK0"] ELSE r

\* n rounds of the two while loops of floppy_seek, one after the other; the
\* loops end within FLOPPY_TRACKS rounds
RECURSIVE seek_loop(_, _, _)
seek_loop(d, target, n) ==
  IF d.f.track = target \/ n = 0 THEN d
  ELSE IF n = 1 THEN
    (IF d.f.track < target THEN DriveCall("floppy_step", <<d, DIR_INWARD>>)
                           ELSE DriveCall("floppy_step", <<d, DIR_OUTWARD>>))
  ELSE seek_loop(seek_loop(d, target, n \div 2), target, n - (n \div 2))

SeekWithoutRecalibration(d, target0) ==
  LET target == IF target0 >= FLOPPY_TRACKS THEN FLOPPY_TRACKS - 1 ELSE target0
  IN [d |-> seek_loop(d, target, FLOPPY_TRACKS), status |-> "FLOPPY_OK"]

floppy_seek(d, target0) ==
  LET target == IF target0 >= FLOPPY_TRACKS THEN FLOPPY_TRACKS - 1 ELSE target0
      r == IF ~d.f.track0_confirmed THEN DriveCall("floppy_seek_track0", <<d>>)
           ELSE [d |-> d, status |-> "FLOPPY_OK"]
  IN IF r.status # "FLOPPY_OK" THEN r
     ELSE [d |-> seek_loop(r.d, target, FLOPPY_TRACKS), status |-> "FLOPPY_OK"]

floppy_current_track(d) == d.f.track

floppy_disk_changed(d) ==
  LET changed == gpio_get(d, "disk_change") = 0
      d0 == Emit(d, "disk_change", gpio_get(d, "disk_change"))
  IN [d |-> IF ~changed THEN d0
            ELSE IF d0.f.track > 0
              THEN DriveCall("floppy_step",
                             <<DriveCall("floppy_step", <<d0, DIR_OUTWARD>>), DIR_INWARD>>)
              ELSE DriveCall("floppy_step",
                             <<DriveCall("floppy_step", <<d0, DIR_INWARD>>), DIR_OUTWARD>>),
      changed |-> changed]

floppy_jog(d, track, distance) ==
  LET away == IF track <= distance THEN track + distance ELSE track - distance
      d1 == DriveCall("floppy_seek", <<d, away>>).d
      d2 == DriveCall("floppy_seek", <<d1, track>>).d
  IN sleep_ms(d2, FLOPPY_HEAD_SETTLE_MS)

\* ---------------------------------------------------------------------------
\* A caller of floppy_seek, on a drive that is cabled or not
\* ---------------------------------------------------------------------------
MaxSeekCalls == 4

SeekHeads == {0, 1, 40, 79}

SeekTargets == {0, 1, 2, 39, 40, 41, 78, 79, 80, 255}

pio_sim_init(present, head) ==
  [present |-> present, head_track |-> head, head_side |-> 0,
   step_direction_inward |-> FALSE, write_protected |-> FALSE,
   fault_writes_remaining |-> 0, write_capture |-> <<>>, index |-> 1,
   tracks |-> <<>>, lucks |-> <<>>]

DriveBench(op, before, d, status, target) ==
  [unit |-> "drive", op |-> op, before |-> before, d |-> d, status |-> status,
   target |-> target]

Fresh(d) == [d EXCEPT !.trace = <<>>]

InitSeek ==
  /\ m = Machine(vdisk_format_valid)
  /\ dir = ZeroDir
  /\ last = NoCall
  /\ gh = History(vdisk_format_valid)
  /\ steps = 0
  /\ \E present \in BOOLEAN, head \in SeekHeads :
       bench = DriveBench("init", floppy_init(pio_sim_init(present, head)),
                          floppy_init(pio_sim_init(present, head)), "FLOPPY_OK", 0)

FloppySeek(target) ==
  /\ bench.unit = "drive"
  /\ \E r \in {DriveCall("floppy_seek", <<Fresh(bench.d), target>>)} :
       bench' = DriveBench("seek", bench.d, r.d, r.status, target)
  /\ steps' = steps + 1
  /\ UNCHANGED <<m, dir, last, gh>>

\* the drive's cable is pulled or plugged between two calls
PioSimInstall(present) ==
  /\ bench.unit = "drive"
  /\ bench.d.drive.present # present
  /\ bench' = DriveBench("install", bench.d,
                         Fresh([bench.d EXCEPT !.drive.present = present]), "FLOPPY_OK", 0)
  /\ steps' = steps + 1
  /\ UNCHANGED <<m, dir, last, gh>>

NextSeek ==
  \/ steps < MaxSeekCalls /\ \E target \in SeekTargets : FloppySeek(target)
  \/ steps < MaxSeekCalls /\ \E present \in BOOLEAN : PioSimInstall(present)

SpecSeek == InitSeek /\ [][NextSeek]_vars

\* the step pulses of a trace with the direction line's level at each pulse:
\* 0 steps inward, 1 outward
Pulses(tr) == {i \in DOMAIN tr : tr[i].ev = "step" /\ tr[i].arg = 0}

DirectionAt(tr, i) ==
  LET set == {j \in 1..(i - 1) : tr[j].ev = "direction"}
      j == CHOOSE j \in set : \A k \in set : k <= j
  IN tr[j].arg

SensorReads(tr) == {i \in DOMAIN tr : tr[i].ev = "track0"}

\* C18: a seek to a cylinder in 0..79 ends with no-track-0 after at most 90
\* outward steps with the track-0 sensor never asserted, or with ok and the
\* tracked position at the target; when track 0 was not confirmed, the sensor
\* asserts before any step that is taken toward the target; the tracked position
\* stays in 0..79 after every step.
C18_SeekReachesTargetOrNoTrack0 ==
  (bench.unit = "drive" /\ bench.op = "seek" /\ bench.target \in 0..79) =>
    LET tr == bench.d.trace
        asserted == {i \in SensorReads(tr) : tr[i].arg = 0}
    IN /\ \/ /\ bench.status = "FLOPPY_ERR_NO_TRACK0"
             /\ Cardinality(Pulses(tr)) <= 90
             /\ \A i \in Pulses(tr) : DirectionAt(tr, i) = 1
             /\ SensorReads(tr) # {} /\ asserted = {}
          \/ /\ bench.status = "FLOPPY_OK"
             /\ floppy_current_track(bench.d) = bench.target
       /\ (~bench.before.f.track0_confirmed /\ bench.status = "FLOPPY_OK") =>
            /\ asserted # {}
            /\ \A i \in Pulses(tr) : \A k \in asserted : i < k =>
                 /\ DirectionAt(tr, i) = 1
                 /\ Cardinality({j \in Pulses(tr) : j < k}) <= 90
            /\ bench.d.f.track0_confirmed
       /\ \A i \in DOMAIN tr : tr[i].ev = "f.track" => tr[i].arg \in 0..79
       /\ bench.d.f.track \in 0..79

\* an unconfirmed head at cylinder 40 is recalibrated and then taken to cylinder 79
C18_Witness ==
  /\ bench.unit = "drive" /\ bench.op = "seek" /\ bench.status = "FLOPPY_OK"
  /\ ~bench.before.f.track0_confirmed /\ bench.before.drive.head_track = 40
  /\ bench.target = 79 /\ bench.d.f.track = 79 /\ bench.d.drive.head_track = 79
  /\ Cardinality(Pulses(bench.d.trace)) = 40 + 79

\* ---------------------------------------------------------------------------
\* floppy.c: reading and writing a track.  The flux of a track stands as the 18
\* sectors it encodes (mfm_encode.c and mfm_decode.c are modelled on their own
\* further down).  A read pass over marginal media may miss sectors: the drive
\* carries a script of passes, each naming the sectors that decode in it; when
\* the script is used up every sector decodes.
\* ---------------------------------------------------------------------------
Luck(name) ==
  IF name = "none" THEN {}
  ELSE IF name = "odd" THEN {n \in Sectors : n % 2 = 1}
  ELSE IF name = "even" THEN {n \in Sectors : n % 2 = 0}
  ELSE Sectors

floppy_prepare(d) ==
  IF ~d.f.auto_motor THEN d
  ELSE floppy_motor_on(floppy_select([d EXCEPT !.f.last_io_time_ms = d.now], TRUE))

floppy_idle_timer_callback(d) ==
  IF ~d.f.motor_on THEN d
  ELSE IF d.now - d.f.last_io_time_ms >= FLOPPY_IDLE_TIMEOUT_MS THEN
    LET d1 == gpio_put_oc(d, "motor_enable", 1)
        d2 == gpio_put_oc([d1 EXCEPT !.f.motor_on = FALSE], "drive_select", 1)
    IN [d2 EXCEPT !.f.selected = FALSE]
  ELSE d

floppy_side_select(d, side) == gpio_put_oc(d, "side_select", IF side = 0 THEN 1 ELSE 0)

floppy_flux_read_start(d) == Emit(d, "flux_read", 1)

floppy_flux_read_stop(d) == Emit(d, "flux_read", 0)

WaitForIndexLow(d) ==
  Emit([d EXCEPT !.drive.index = 0], "index", 0)

floppy_wait_for_index(d) ==
  LET d1 == IF gpio_get(d, "index") = 0 THEN Emit(d, "index", 0) ELSE d
      d2 == Emit(d1, "index", 1)
  IN Emit([d2 EXCEPT !.drive.index = 0], "index", 0)

floppy_flux_write_start(d) == gpio_put_oc(d, "write_gate", 0)

\* every pulse of the encoded track goes to the write state machine
pio_sm_put_blocking(d, flux) ==
  Emit([d EXCEPT !.drive.write_capture = flux], "write_data", Len(flux))

StopWithoutTail(d) ==
  gpio_put_oc(Emit(d, "tx_fifo_empty", 1), "write_gate", 1)

floppy_flux_write_stop(d) ==
  gpio_put_oc(sleep_us(Emit(d, "tx_fifo_empty", 1), 5), "write_gate", 1)

complete_track_cb(sector, t) ==
  LET t1 == IF ~t.sectors[sector.sector_n].valid
              THEN [t EXCEPT !.sectors[sector.sector_n] = sector] ELSE t
  IN [ctx |-> t1, done |-> \A i \in Sectors : t1.sectors[i].valid]

read_sector_cb(sector, c) ==
  IF sector.sector_n = c.sector_n THEN [ctx |-> [c EXCEPT !.out = sector], done |-> TRUE]
  ELSE [ctx |-> c, done |-> FALSE]

VerifyAnyData(sector, v) ==
  LET v1 == [v EXCEPT !.verified = @ \cup {sector.sector_n}]
  IN [ctx |-> v1, done |-> \A i \in Sectors : i \in v1.verified]

verify_track_cb(sector, v) ==
  LET idx == sector.sector_n
      v1 == IF idx \notin v.verified /\ sector.data = v.expected.sectors[idx].data
              THEN [v EXCEPT !.verified = @ \cup {idx}] ELSE v
  IN [ctx |-> v1, done |-> \A i \in Sectors : i \in v1.verified]

Callback(cb, sector, ctx) ==
  IF cb = "complete_track_cb" THEN complete_track_cb(sector, ctx)
  ELSE IF cb = "read_sector_cb" THEN read_sector_cb(sector, ctx)
  ELSE verify_track_cb(sector, ctx)

\* what floppy_read_flux does with one decoded sector
read_flux_sector(r, sector, track, side, cb) ==
  IF r.res # "" THEN r
  ELSE IF ~(sector.valid /\ sector.sector_n >= 1 /\ sector.sector_n <= SECTORS_PER_TRACK)
    THEN r
  ELSE IF sector.track # track THEN [r EXCEPT !.res = "FLOPPY_ERR_WRONG_TRACK"]
  ELSE IF sector.side # side THEN [r EXCEPT !.res = "FLOPPY_ERR_WRONG_SIDE"]
  ELSE LET c == Callback(cb, sector, r.ctx)
       IN [r EXCEPT !.ctx = c.ctx, !.res = IF c.done THEN "FLOPPY_OK" ELSE ""]

\* the sectors of one revolution, from the i-th of the track on
RECURSIVE read_flux_loop(_, _, _, _, _, _, _)
read_flux_loop(r, flux, luck, track, side, cb, i) ==
  IF r.res # "" \/ i > Len(flux) THEN r
  ELSE read_flux_loop(
         IF flux[i].sector_n \in luck
           THEN read_flux_sector(r, flux[i], track, side, cb) ELSE r,
         flux, luck, track, side, cb, i + 1)

floppy_read_flux(d, track, side, cb, ctx) ==
  LET d1 == floppy_flux_read_start(
              floppy_side_select(DriveCall("floppy_seek", <<d, track>>).d, side))
      luck == IF d1.drive.lucks = <<>> THEN Sectors ELSE Luck(Head(d1.drive.lucks))
      d2 == [d1 EXCEPT !.drive.lucks = IF @ = <<>> THEN @ ELSE Tail(@)]
      flux == pio_sim_track(d2.drive, d2.drive.head_track, d2.drive.head_side)
      r == read_flux_loop([ctx |-> ctx, res |-> ""], flux, luck, track, side, cb, 1)
      edges == IF r.res = "" THEN FLOPPY_READ_TRACK_ATTEMPTS * 2 ELSE 0
  IN [d |-> floppy_flux_read_stop(Emit(d2, "ix_edges", edges)),
      res |-> IF r.res = "" THEN "FLOPPY_ERR_TIMEOUT" ELSE r.res,
      ctx |-> r.ctx]

floppy_complete_track(d, t) ==
  IF \A i \in Sectors : t.sectors[i].valid THEN [d |-> d, res |-> "FLOPPY_OK", ctx |-> t]
  ELSE
    LET r1 == DriveCall("floppy_read_flux", <<d, t.track, t.side, "complete_track_cb", t>>)
    IN IF r1.res = "FLOPPY_OK" THEN r1
       ELSE LET r2 == DriveCall("floppy_read_flux",
                                <<DriveCall("floppy_jog", <<r1.d, t.track, 10>>), t.track,
                                  t.side, "complete_track_cb", r1.ctx>>)
            IN IF r2.res = "FLOPPY_OK" THEN r2
               ELSE DriveCall("floppy_read_flux",
                              <<DriveCall("floppy_jog", <<r2.d, t.track, 20>>), t.track,
                                t.side, "complete_track_cb", r2.ctx>>)

floppy_read_internal(d, track, side, sector_n, out) ==
  DriveCall("floppy_read_flux",
            <<d, track, side, "read_sector_cb", [sector_n |-> sector_n, out |-> out]>>)

floppy_read_sector(d, sector) ==
  LET s0 == [sector EXCEPT !.valid = FALSE]
      d0 == DriveCall("floppy_prepare", <<d>>)
      r1 == DriveCall("floppy_read_internal", <<d0, s0.track, s0.side, s0.sector_n, s0>>)
  IN IF r1.res # "FLOPPY_ERR_TIMEOUT" THEN r1
     ELSE LET r2 == DriveCall("floppy_read_internal",
                              <<DriveCall("floppy_jog", <<r1.d, s0.track, 10>>), s0.track,
                                s0.side, s0.sector_n, r1.ctx.out>>)
          IN IF r2.res # "FLOPPY_ERR_TIMEOUT" THEN r2
             ELSE DriveCall("floppy_read_internal",
                            <<DriveCall("floppy_jog", <<r2.d, s0.track, 20>>), s0.track,
                              s0.side, s0.sector_n, r2.ctx.out>>)

\* the track as mfm_encode_track lays it out: the 18 sectors in order, each
\* with the address fields of its own sector_t
mfm_encode_track(t) ==
  [i \in Sectors |-> [track |-> t.sectors[i].track, side |-> t.sectors[i].side,
                      sector_n |-> t.sectors[i].sector_n, data |-> t.sectors[i].data,
                      valid |-> TRUE]]

\* the verify reads of one write attempt, from the verify-th on
RECURSIVE verify_loop(_, _, _, _)
verify_loop(d, t, vctx, verify) ==
  IF verify >= 3 THEN [d |-> d, res |-> "", ctx |-> vctx]
  ELSE LET r == DriveCall("floppy_read_flux",
                          <<DriveCall("floppy_jog", <<d, t.track, 10>>), t.track, t.side,
                            "verify_track_cb", vctx>>)
       IN IF r.res = "FLOPPY_OK" THEN r
          ELSE verify_loop(r.d, t, r.ctx, verify + 1)

WriteAttemptInPlace(d, t, flux, attempt) ==
  LET d1 == floppy_side_select(DriveCall("floppy_seek", <<d, t.track>>).d, t.side)
      d2 == floppy_flux_write_start(floppy_wait_for_index(d1))
      d3 == floppy_flux_write_stop(pio_sm_put_blocking(d2, flux))
  IN verify_loop(d3, t, [expected |-> t, verified |-> {}], 0)

\* one write attempt: position, wait for the index, write, verify
write_attempt(d, t, flux, attempt) ==
  LET d0 == IF attempt = 2 THEN DriveCall("floppy_seek_track0", <<d>>).d ELSE d
      d1 == floppy_side_select(DriveCall("floppy_seek", <<d0, t.track>>).d, t.side)
      d2 == floppy_flux_write_start(floppy_wait_for_index(d1))
      d3 == floppy_flux_write_stop(pio_sm_put_blocking(d2, flux))
  IN verify_loop(d3, t, [expected |-> t, verified |-> {}], 0)

RECURSIVE write_attempts(_, _, _, _)
write_attempts(d, t, flux, attempt) ==
  IF attempt >= FLOPPY_WRITE_ATTEMPTS THEN [d |-> d, res |-> "FLOPPY_ERR_VERIFY", ctx |-> t]
  ELSE LET r == DriveCall("write_attempt", <<d, t, flux, attempt>>)
       IN IF r.res = "FLOPPY_OK"
            THEN [d |-> r.d, res |-> "FLOPPY_OK", ctx |-> t, verified |-> r.ctx.verified]
          ELSE write_attempts(r.d, t, flux, attempt + 1)

WriteWithoutCompleting(d, t) ==
  IF floppy_write_protected(d)
    THEN [d |-> Emit(d, "write_protect", 0), res |-> "FLOPPY_ERR_WRITE_PROTECTED", ctx |-> t]
  ELSE write_attempts(DriveCall("floppy_prepare", <<Emit(d, "write_protect", 1)>>), t,
                      mfm_encode_track(t), 0)

floppy_write_track(d, t) ==
  IF floppy_write_protected(d)
    THEN [d |-> Emit(d, "write_protect", 0), res |-> "FLOPPY_ERR_WRITE_PROTECTED", ctx |-> t]
  ELSE LET c == DriveCall("floppy_complete_track",
                          <<DriveCall("floppy_prepare", <<Emit(d, "write_protect", 1)>>), t>>)
       IN IF c.res # "FLOPPY_OK" THEN c
          ELSE write_attempts(c.d, c.ctx, mfm_encode_track(c.ctx), 0)

floppy_read_track(d, t) ==
  DriveCall("floppy_complete_track",
            <<DriveCall("floppy_prepare", <<d>>),
              [t EXCEPT !.sectors = [i \in Sectors |-> [@[i] EXCEPT !.valid = FALSE]]]>>)

\* one routine of floppy.c called by name with its arguments
DriveCall(op, a) ==
  CASE op = "floppy_step" -> floppy_step(a[1], a[2])
    [] op = "floppy_seek_track0" -> floppy_seek_track0(a[1])
    [] op = "floppy_seek" -> floppy_seek(a[1], a[2])
    [] op = "floppy_jog" -> floppy_jog(a[1], a[2], a[3])
    [] op = "floppy_read_flux" -> floppy_read_flux(a[1], a[2], a[3], a[4], a[5])
    [] op = "floppy_complete_track" -> floppy_complete_track(a[1], a[2])
    [] op = "floppy_prepare" -> floppy_prepare(a[1])
    [] op = "floppy_read_internal" -> floppy_read_internal(a[1], a[2], a[3], a[4], a[5])
    [] op = "write_attempt" -> write_attempt(a[1], a[2], a[3], a[4])
    [] op = "floppy_write_track" -> floppy_write_track(a[1], a[2])
    [] op = "floppy_read_sector" -> floppy_read_sector(a[1], a[2])

\* ---------------------------------------------------------------------------
\* A caller of the drive: track writes and sector reads on a disk whose tab,
\* write faults and marginal sectors the environment sets
\* ---------------------------------------------------------------------------
MaxDriveCalls == 2

DriveTargets == {<<1, 0>>, <<40, 1>>}

StagedSets == {{1}, {1, 18}, Sectors \ {1}, Sectors}

NonePasses(n) == [i \in 1..n |-> "none"]

LuckScripts ==
  {<<>>, <<"odd", "even">>, <<"all", "none", "odd", "even">>, NonePasses(12)}

WriteFaults == {0, 1, 3}

\* the track_t a caller hands to floppy_write_track: the staged sectors hold
\* the caller's bytes, the others are marked invalid
StagedTrack(c, h, staged, value) ==
  [track |-> c, side |-> h,
   sectors |-> [i \in Sectors |->
                  [track |-> c, side |-> h, sector_n |-> i,
                   data |-> IF i \in staged THEN 100 * value + i ELSE 0,
                   valid |-> i \in staged]]]

DriveIo(op, before, d, status, t, out, verified) ==
  [unit |-> "drive", op |-> op, before |-> before, d |-> d, status |-> status,
   target |-> t.track, t |-> t, out |-> out, verified |-> verified]

InitDrive ==
  /\ m = Machine(vdisk_format_valid)
  /\ dir = ZeroDir
  /\ last = NoCall
  /\ gh = History(vdisk_format_valid)
  /\ steps = 0
  /\ \E head \in {0, 40}, tab \in BOOLEAN, faults \in WriteFaults :
       LET drive == [pio_sim_init(TRUE, head) EXCEPT !.write_protected = tab,
                                                     !.fault_writes_remaining = faults]
       IN bench = DriveBench("init", floppy_init(drive), floppy_init(drive), "FLOPPY_OK", 0)

FloppyWriteTrack(target, staged, script) ==
  /\ bench.unit = "drive"
  /\ LET t == StagedTrack(target[1], target[2], staged, steps + 1)
         d0 == Fresh([bench.d EXCEPT !.drive.lucks = script])
     IN \E r \in {DriveCall("floppy_write_track", <<d0, t>>)} :
          bench' = DriveIo("write_track", d0, r.d, r.res, t, r.ctx,
                           IF r.res = "FLOPPY_OK" THEN r.verified ELSE {})
  /\ steps' = steps + 1
  /\ UNCHANGED <<m, dir, last, gh>>

FloppyReadSector(target, n, script) ==
  /\ bench.unit = "drive"
  /\ LET sector == [track |-> target[1], side |-> target[2], sector_n |-> n, data |-> 0,
                    valid |-> FALSE]
         d0 == Fresh([bench.d EXCEPT !.drive.lucks = script])
     IN \E r \in {DriveCall("floppy_read_sector", <<d0, sector>>)} :
          bench' = DriveIo("read_sector", d0, r.d, r.res,
                           StagedTrack(target[1], target[2], {}, 0), r.ctx.out, {})
  /\ steps' = steps + 1
  /\ UNCHANGED <<m, dir, last, gh>>

\* the disk is taken out, its tab is moved, and it is put back
FlipTab ==
  /\ bench.unit = "drive"
  /\ bench' = DriveBench("tab", bench.d,
                         Fresh([bench.d EXCEPT !.drive.write_protected = ~@]),
                         "FLOPPY_OK", 0)
  /\ steps' = steps + 1
  /\ UNCHANGED <<m, dir, last, gh>>

NextDrive ==
  \/ steps < MaxDriveCalls /\ \E target \in DriveTargets, staged \in StagedSets,
                                 script \in LuckScripts :
                                FloppyWriteTrack(target, staged, script)
  \/ steps < MaxDriveCalls /\ \E target \in DriveTargets, n \in {1, 18},
                                 script \in {<<>>, NonePasses(3)} :
                                FloppyReadSector(target, n, script)
  \/ steps < MaxDriveCalls /\ FlipTab

SpecDrive == InitDrive /\ [][NextDrive]_vars

Staged(t) == {i \in Sectors : t.sectors[i].valid}

WroteTrack == bench.unit = "drive" /\ bench.op = "write_track"

\* C14: a track write with only some of the 18 sectors staged leaves every
\* unstaged sector of the track, and every other track, with the bytes it held
\* before; when the write reports success the staged sectors hold the staged bytes.
C14_UnstagedSectorsKept ==
  (WroteTrack /\ Staged(bench.t) # Sectors) =>
    LET c == bench.t.track
        h == bench.t.side
        old == pio_sim_track(bench.before.drive, c, h)
        new == pio_sim_track(bench.d.drive, c, h)
    IN /\ \A n \in Sectors \ Staged(bench.t) : new[n] = old[n]
       /\ \A k \in DriveTargets \ {<<c, h>>} :
            pio_sim_track(bench.d.drive, k[1], k[2])
              = pio_sim_track(bench.before.drive, k[1], k[2])
       /\ bench.status = "FLOPPY_OK" =>
            \A n \in Staged(bench.t) :
              /\ new[n].data = bench.t.sectors[n].data
              /\ new[n].sector_n = n /\ new[n].track = c /\ new[n].side = h

\* one sector is rewritten on a track that an earlier write had filled
C14_Witness ==
  /\ WroteTrack /\ bench.status = "FLOPPY_OK" /\ Staged(bench.t) = {1}
  /\ LET old == pio_sim_track(bench.before.drive, bench.t.track, bench.t.side)
         new == pio_sim_track(bench.d.drive, bench.t.track, bench.t.side)
     IN /\ old[18].data = 118 /\ new[18].data = 118
        /\ old[1].data = 101 /\ new[1].data = 201

GateOn(tr) == {i \in DOMAIN tr : tr[i].ev = "write_gate" /\ tr[i].arg = 0}

GateOff(tr) == {i \in DOMAIN tr : tr[i].ev = "write_gate" /\ tr[i].arg = 1}

ReadStarts(tr) == {i \in DOMAIN tr : tr[i].ev = "flux_read" /\ tr[i].arg = 1}

\* the largest member of a set of positions, 0 for the empty set
Latest(set) == IF set = {} THEN 0 ELSE CHOOSE i \in set : \A j \in set : j <= i

\* C15: write_track reports success only when, after one of its write attempts,
\* the verify reads of that attempt found all 18 sectors valid and equal to the
\* intended track, and then the track on the media is the intended track: the
\* staged bytes in the staged sectors, the bytes read before the write in the rest.
C15_SuccessMeansVerified ==
  (WroteTrack /\ bench.status = "FLOPPY_OK") =>
    LET tr == bench.d.trace
        media == pio_sim_track(bench.d.drive, bench.t.track, bench.t.side)
        old == pio_sim_track(bench.before.drive, bench.t.track, bench.t.side)
    IN /\ GateOff(tr) # {}
       /\ \E r \in ReadStarts(tr) : r > Latest(GateOff(tr))
       /\ bench.verified = Sectors
       /\ \A n \in Sectors :
            /\ media[n].valid /\ media[n].sector_n = n
            /\ media[n].track = bench.t.track /\ media[n].side = bench.t.side
            /\ media[n].data = bench.out.sectors[n].data
            /\ bench.out.sectors[n].data =
                 IF n \in Staged(bench.t) THEN bench.t.sectors[n].data ELSE old[n].data

\* the first attempt's write was lost and the second attempt's verify passed
\* over two reads
C15_Witness ==
  /\ WroteTrack /\ bench.status = "FLOPPY_OK"
  /\ Cardinality(GateOn(bench.d.trace)) = 2
  /\ bench.before.drive.fault_writes_remaining = 1
  /\ Cardinality({r \in ReadStarts(bench.d.trace) : r > Latest(GateOff(bench.d.trace))}) = 2

IndexReads(tr, from, to) == {i \in DOMAIN tr : from < i /\ i < to /\ tr[i].ev = "index"}

\* C19: in write_track the write gate is asserted only after the index was seen
\* to fall in that attempt, the pulse stream is emitted with the gate asserted,
\* the gate is released after the last pulse and a delay of at least 5 us, before
\* any verify read and before the return; on a write-protected disk the gate is
\* never asserted and the call fails with write-protected.
C19_WriteGateDiscipline ==
  WroteTrack =>
    LET tr == bench.d.trace
    IN /\ \A i \in GateOn(tr) :
            LET from == Latest({j \in GateOff(tr) : j < i})
                k == Latest(IndexReads(tr, from, i))
                j == Latest(IndexReads(tr, from, k))
                off == {e \in GateOff(tr) : e > i}
            IN /\ k > 0 /\ j > 0 /\ tr[j].arg = 1 /\ tr[k].arg = 0
               /\ off # {}
               /\ LET e == CHOOSE e \in off : \A x \in off : e <= x
                      w == Latest({x \in i..e : tr[x].ev = "write_data"})
                      q == Latest({x \in i..e : tr[x].ev = "tx_fifo_empty"})
                      s == Latest({x \in i..e : tr[x].ev = "sleep_us" /\ tr[x].arg >= 5})
                  IN w > i /\ q > w /\ s > q /\ e > s
       /\ \A w \in DOMAIN tr : tr[w].ev = "write_data" =>
            Latest({i \in GateOn(tr) : i < w}) > Latest({e \in GateOff(tr) : e < w})
       /\ \A r \in ReadStarts(tr) :
            Latest({i \in GateOn(tr) : i < r}) <= Latest({e \in GateOff(tr) : e < r})
       /\ bench.d.pins["write_gate"] = 1
       /\ bench.before.drive.write_protected =>
            (GateOn(tr) = {} /\ bench.status = "FLOPPY_ERR_WRITE_PROTECTED")
       /\ bench.status = "FLOPPY_ERR_WRITE_PROTECTED" => bench.before.drive.write_protected

\* three attempts wrote the track, each after its own index edge, and none verified
C19_Witness ==
  /\ WroteTrack /\ bench.status = "FLOPPY_ERR_VERIFY"
  /\ Cardinality(GateOn(bench.d.trace)) = 3
  /\ Cardinality(GateOff(bench.d.trace)) = 3
  /\ bench.before.drive.index = 0

\* ---------------------------------------------------------------------------
\* The idle timer: the clock moves between the calls, and the repeating timer
\* runs floppy_idle_timer_callback at every full IDLE_CHECK_INTERVAL_MS.  The
\* time a call takes is part of the time that passes after it.
\* ---------------------------------------------------------------------------
MaxIdleCalls == 5

IdleWaits == {500, 1000, 19000}

IdleTarget == <<1, 0>>

IdleBench(op, before, d, status, issued) ==
  [unit |-> "drive", op |-> op, before |-> before, d |-> d, status |-> status,
   target |-> 0, issued |-> issued]

LastTick(now) == (now \div IDLE_CHECK_INTERVAL_MS) * IDLE_CHECK_INTERVAL_MS

\* the timer checks that fall into the time up to `to`
RECURSIVE add_repeating_timer_ms(_, _)
add_repeating_timer_ms(d, to) ==
  LET tick == LastTick(d.now) + IDLE_CHECK_INTERVAL_MS
  IN IF tick > to THEN [d EXCEPT !.now = to]
     ELSE add_repeating_timer_ms(floppy_idle_timer_callback([d EXCEPT !.now = tick]), to)

InitIdle ==
  /\ m = Machine(vdisk_format_valid)
  /\ dir = ZeroDir
  /\ last = NoCall
  /\ gh = History(vdisk_format_valid)
  /\ steps = 0
  /\ \E tab \in BOOLEAN :
       LET drive == [pio_sim_init(TRUE, 0) EXCEPT !.write_protected = tab]
       IN bench = IdleBench("init", floppy_init(drive), floppy_init(drive), "FLOPPY_OK", 0)

Elapse(ms) ==
  /\ bench.unit = "drive"
  /\ bench' = IdleBench("elapse", bench.d,
                        add_repeating_timer_ms(Fresh(bench.d), bench.d.now + ms),
                        "FLOPPY_OK", bench.issued)
  /\ steps' = steps + 1
  /\ UNCHANGED <<m, dir, last, gh>>

IdleRead ==
  /\ bench.unit = "drive"
  /\ LET sector == [track |-> IdleTarget[1], side |-> IdleTarget[2], sector_n |-> 1,
                    data |-> 0, valid |-> FALSE]
     IN \E r \in {DriveCall("floppy_read_sector", <<Fresh(bench.d), sector>>)} :
          bench' = IdleBench("read_sector", bench.d, r.d, r.res, bench.d.now)
  /\ steps' = steps + 1
  /\ UNCHANGED <<m, dir, last, gh>>

IdleWrite ==
  /\ bench.unit = "drive"
  /\ LET t == StagedTrack(IdleTarget[1], IdleTarget[2], Sectors, steps + 1)
     IN \E r \in {DriveCall("floppy_write_track", <<Fresh(bench.d), t>>)} :
          bench' = IdleBench("write_track", bench.d, r.d, r.res, bench.d.now)
  /\ steps' = steps + 1
  /\ UNCHANGED <<m, dir, last, gh>>

IdleFlipTab ==
  /\ bench.unit = "drive"
  /\ bench' = IdleBench("tab", bench.d,
                        Fresh([bench.d EXCEPT !.drive.write_protected = ~@]),
                        "FLOPPY_OK", bench.issued)
  /\ steps' = steps + 1
  /\ UNCHANGED <<m, dir, last, gh>>

NextIdle ==
  \/ steps < MaxIdleCalls /\ \E ms \in IdleWaits : Elapse(ms)
  \/ steps < MaxIdleCalls /\ IdleRead
  \/ steps < MaxIdleCalls /\ IdleWrite
  \/ steps < MaxIdleCalls /\ IdleFlipTab

SpecIdle == InitIdle /\ [][NextIdle]_vars

Released(d) ==
  /\ d.pins["motor_enable"] = 1 /\ d.pins["drive_select"] = 1
  /\ ~d.f.motor_on /\ ~d.f.selected

\* the timer checks of the last Elapse
Ticked == LastTick(bench.d.now) > bench.before.now

\* the positions of a trace at which the call touches a line of the drive other
\* than drive-select and motor-enable
Accesses(tr) ==
  {i \in DOMAIN tr : tr[i].ev \notin {"drive_select", "motor_enable", "sleep_ms", "sleep_us"}}

First(set) == CHOOSE i \in set : \A j \in set : i <= j

\* the timer switches the motor off at the first check that is 20 s or more
\* after the last read or write was issued
IdleMotorOff ==
  (bench.unit = "drive" /\ bench.op = "elapse" /\ Ticked /\ bench.before.f.motor_on
     /\ LastTick(bench.d.now) - bench.issued >= FLOPPY_IDLE_TIMEOUT_MS)
    => Released(bench.d)

\* the timer does not switch the motor off before that
IdleNotEarly ==
  (bench.unit = "drive" /\ bench.op = "elapse" /\ bench.before.f.motor_on
     /\ ~bench.d.f.motor_on)
    => (Ticked /\ LastTick(bench.d.now) - bench.issued >= FLOPPY_IDLE_TIMEOUT_MS)

\* a read or write that finds the drive released asserts drive-select and
\* motor-enable before it touches any other line of the drive
IdleReassert ==
  (bench.unit = "drive" /\ bench.op \in {"read_sector", "write_track"}
     /\ Released(bench.before))
    => LET tr == bench.d.trace
           first == IF Accesses(tr) = {} THEN Len(tr) + 1 ELSE First(Accesses(tr))
       IN /\ \E i \in 1..(first - 1) : tr[i].ev = "drive_select" /\ tr[i].arg = 0
          /\ \E i \in 1..(first - 1) : tr[i].ev = "motor_enable" /\ tr[i].arg = 0

\* C20: with the motor on and no read or write issued for 20 s, the next timer
\* check releases motor-enable and drive-select and clears motor_on and selected;
\* the timer does not release them earlier than 20 s after the last read or write;
\* the next read or write asserts both before it accesses the drive.
C20_IdleMotorOff == IdleMotorOff /\ IdleNotEarly /\ IdleReassert

\* ---------------------------------------------------------------------------
\* crc.h, mfm_encode.c: the CRC and the MFM encoder
\* ---------------------------------------------------------------------------
\* C's ^ on unsigned integers.
RECURSIVE Xor(_, _)
Xor(a, b) ==
    IF a = 0 THEN b
    ELSE IF b = 0 THEN a
    ELSE 2 * Xor(a \div 2, b \div 2) + ((a + b) % 2)

\* One shift of the CRC register: polynomial x^16 + x^12 + x^5 + 1, most
\* significant bit first, input not reflected.
CrcShift(crc) ==
    IF crc >= 32768 THEN Xor((crc * 2) % 65536, 4129) ELSE (crc * 2) % 65536

\* The table crc.h declares: entry i is byte i run through eight shifts.
crc16_table ==
    [i \in 0..255 |->
        CrcShift(CrcShift(CrcShift(CrcShift(
        CrcShift(CrcShift(CrcShift(CrcShift(i * 256))))))))]

crc16_update(crc, byte) ==
    Xor((crc * 256) % 65536, crc16_table[Xor(crc \div 256, byte) % 256])

\* crc16's loop over data[lo..hi], halved so that 512 bytes nest nine deep; the
\* first test reads init, so one half is computed before the next starts.
RECURSIVE crc16(_, _, _, _)
crc16(data, lo, hi, init) ==
    IF init < 0 \/ lo > hi THEN init
    ELSE IF lo = hi THEN crc16_update(init, data[lo])
    ELSE crc16(data, lo + (hi - lo) \div 2 + 1, hi,
               crc16(data, lo, lo + (hi - lo) \div 2, init))

crc16_mfm(data) ==
    crc16(data, 1, Len(data),
          crc16_update(crc16_update(crc16_update(65535, 161), 161), 161))

MFM_PIO_OVERHEAD == 19
MFM_PULSE_SHORT == 48 - MFM_PIO_OVERHEAD
MFM_PULSE_MEDIUM == 72 - MFM_PIO_OVERHEAD
MFM_PULSE_LONG == 96 - MFM_PIO_OVERHEAD

\* The encoder e: buf is the pulse buffer filled so far (pos is its length; the
\* callers' buffers are larger than one sector needs), prev_bit and
\* pending_cells as in mfm_encode_t.
mfm_encode_init == [buf |-> <<>>, prev_bit |-> 0, pending_cells |-> 0]

mfm_encode_pulse(e, timing) == [e EXCEPT !.buf = Append(@, timing)]

EmitShortOnly(e) ==
    [mfm_encode_pulse(e, MFM_PULSE_SHORT) EXCEPT !.pending_cells = 0]

mfm_encode_emit(e) ==
    [(IF e.pending_cells <= 1 THEN mfm_encode_pulse(e, MFM_PULSE_SHORT)
      ELSE IF e.pending_cells = 2 THEN mfm_encode_pulse(e, MFM_PULSE_MEDIUM)
      ELSE mfm_encode_pulse(e, MFM_PULSE_LONG))
     EXCEPT !.pending_cells = 0]

\* The body of mfm_encode_bytes' inner loop: the clock half-cell, then the
\* data half-cell of one bit.
mfm_encode_bit(e, data_bit) ==
    LET clock_bit == IF e.prev_bit = 0 /\ data_bit = 0 THEN 1 ELSE 0
        c == IF clock_bit = 1 THEN mfm_encode_emit(e)
             ELSE [e EXCEPT !.pending_cells = @ + 1]
        d == IF data_bit = 1 THEN mfm_encode_emit(c)
             ELSE [c EXCEPT !.pending_cells = @ + 1]
    IN  [d EXCEPT !.prev_bit = data_bit]

\* Bit k (1 is the first) of a byte sequence, most significant bit first.
DataBit(data, k) ==
    (data[(k - 1) \div 8 + 1] \div (2 ^ (7 - ((k - 1) % 8)))) % 2

\* mfm_encode_bytes' loops over bits lo..hi of data, halved; the first test
\* reads e, so one half is encoded before the next starts.
RECURSIVE mfm_encode_bits(_, _, _, _)
mfm_encode_bits(e, data, lo, hi) ==
    IF e.pending_cells < 0 \/ lo > hi THEN e
    ELSE IF lo = hi THEN mfm_encode_bit(e, DataBit(data, lo))
    ELSE LET half == mfm_encode_bits(e, data, lo, lo + (hi - lo) \div 2)
         IN  mfm_encode_bits(half, data, lo + (hi - lo) \div 2 + 1, hi)

mfm_encode_bytes(e, data) == mfm_encode_bits(e, data, 1, 8 * Len(data))

sync_pulses ==
    << MFM_PULSE_MEDIUM, MFM_PULSE_LONG, MFM_PULSE_MEDIUM, MFM_PULSE_LONG,
       MFM_PULSE_MEDIUM, MFM_PULSE_SHORT,
       MFM_PULSE_LONG, MFM_PULSE_MEDIUM, MFM_PULSE_LONG, MFM_PULSE_MEDIUM,
       MFM_PULSE_SHORT,
       MFM_PULSE_LONG, MFM_PULSE_MEDIUM, MFM_PULSE_LONG, MFM_PULSE_MEDIUM >>

mfm_encode_sync(e) ==
    LET p == mfm_encode_bytes(e, [i \in 1..12 |-> 0])
    IN  [p EXCEPT !.buf = @ \o sync_pulses, !.prev_bit = 1, !.pending_cells = 0]

mfm_encode_gap(e, count) == mfm_encode_bytes(e, [i \in 1..count |-> 78])

\* An address record or a data record after its sync: the bytes, then their
\* CRC, high byte first.
mfm_encode_record(e, bytes, crc) ==
    mfm_encode_bytes(mfm_encode_bytes(mfm_encode_sync(e), bytes),
                     <<crc \div 256, crc % 256>>)

mfm_encode_sector(e, s) ==
    LET addr == <<254, s.track, s.side, s.sector_n, 2>>
        a == mfm_encode_record(e, addr, crc16_mfm(addr))
        g == mfm_encode_gap(a, 22)
        rec == <<251>> \o s.data
    IN  mfm_encode_record(g, rec, crc16_mfm(rec))

\* ---------------------------------------------------------------------------
\* mfm_decode.c: the MFM decoder
\* ---------------------------------------------------------------------------
MFM_MIN_PREAMBLE == 60
MFM_BUF_SIZE == SECTOR_SIZE + 16

\* Pulse classes: 0 short, 1 medium, 2 long, -1 invalid.
ClassifyLowCeiling(mf, delta) ==
    IF delta < 35 THEN -1
    ELSE IF delta <= mf.T2_max THEN 0
    ELSE IF delta <= mf.T3_max THEN 1
    ELSE IF delta < 90 THEN 2
    ELSE -1

mfm_classify(mf, delta) ==
    IF delta < 35 THEN -1
    ELSE IF delta <= mf.T2_max THEN 0
    ELSE IF delta <= mf.T3_max THEN 1
    ELSE IF delta < 120 THEN 2
    ELSE -1

\* buf holds the bytes stored since the last sync, so buf_pos is its length;
\* what the C array holds beyond buf_pos is never read.
mfm_push_bit(mf, bit) ==
    LET acc == ((mf.byte_acc * 2) % 256) + (IF bit # 0 THEN 1 ELSE 0)
        cnt == mf.bit_count + 1
    IN  IF cnt >= 8
        THEN [mf EXCEPT !.buf = IF Len(@) < MFM_BUF_SIZE
                                 THEN Append(@, acc) ELSE @,
                        !.crc = crc16_update(@, acc),
                        !.bit_count = 0,
                        !.byte_acc = 0]
        ELSE [mf EXCEPT !.byte_acc = acc, !.bit_count = cnt]

sync_pattern == <<1, 2, 1, 2, 1, 0, 2, 1, 2, 1, 0, 2, 1, 2, 1>>

mfm_init ==
    [ state |-> "MFM_HUNT", T2_max |-> 57, T3_max |-> 82,
      short_count |-> 0, sync_stage |-> 0, byte_acc |-> 0, bit_count |-> 0,
      buf |-> <<>>, bytes_expected |-> 0, crc |-> 0,
      pending_track |-> 0, pending_side |-> 0, pending_sector |-> 0,
      pending_size_code |-> 0, have_pending_addr |-> FALSE,
      syncs_found |-> 0, sectors_read |-> 0, crc_errors |-> 0 ]

mfm_reset(mf) ==
    [mf EXCEPT !.state = "MFM_HUNT", !.short_count = 0, !.sync_stage = 0]

\* The sector_t a caller hands to mfm_feed, zeroed.
NoSector ==
    [ track |-> 0, side |-> 0, sector_n |-> 0, size_code |-> 0, size |-> 0,
      valid |-> FALSE, data |-> [i \in 1..SECTOR_SIZE |-> 0] ]

\* The mark byte has arrived: how long is the record.
check_mark(mf) ==
    IF Len(mf.buf) = 1 /\ mf.bytes_expected = 0
    THEN LET mark == mf.buf[1]
         IN  IF mark = 254 THEN [m |-> [mf EXCEPT !.bytes_expected = 7],
                                 go |-> TRUE]
             ELSE IF mark = 251 \/ mark = 250
             THEN [m |-> [mf EXCEPT !.bytes_expected =
                            IF mf.have_pending_addr
                            THEN 1 + 128 * (2 ^ mf.pending_size_code) + 2
                            ELSE 515],
                   go |-> TRUE]
             ELSE [m |-> mfm_reset(mf), go |-> FALSE]
    ELSE [m |-> mf, go |-> TRUE]

LatchAsWritten(mf) ==
    [mf EXCEPT !.pending_track = mf.buf[2],
               !.pending_side = mf.buf[3],
               !.pending_sector = mf.buf[4],
               !.pending_size_code = mf.buf[5] % 4,
               !.have_pending_addr = TRUE]

\* A CRC-valid address record becomes the pending address.
latch_address(mf) ==
    LET size_code == mf.buf[5] % 4
    IN  [mf EXCEPT !.pending_track = mf.buf[2],
                   !.pending_side = mf.buf[3],
                   !.pending_sector = mf.buf[4],
                   !.pending_size_code = IF size_code > 2 THEN 2 ELSE size_code,
                   !.have_pending_addr = TRUE]

ReportAlwaysValid(mf, out, crc_ok) ==
    [out EXCEPT !.track = mf.pending_track, !.side = mf.pending_side,
                !.sector_n = mf.pending_sector,
                !.size_code = mf.pending_size_code,
                !.size = 128 * (2 ^ mf.pending_size_code),
                !.valid = TRUE]

\* A data record's fields go to the caller's sector.
report_sector(mf, out, crc_ok) ==
    LET size == 128 * (2 ^ mf.pending_size_code)
        c1 == IF size > SECTOR_SIZE THEN SECTOR_SIZE ELSE size
        copy_size == IF c1 > Len(mf.buf) - 1 THEN Len(mf.buf) - 1 ELSE c1
    IN  [out EXCEPT !.track = mf.pending_track,
                    !.side = mf.pending_side,
                    !.sector_n = mf.pending_sector,
                    !.size_code = mf.pending_size_code,
                    !.size = size,
                    !.valid = crc_ok,
                    !.data = [i \in 1..SECTOR_SIZE |->
                                IF i <= copy_size THEN mf.buf[i + 1] ELSE @[i]]]

\* The label check_record of mfm_feed.
check_record(mf0, out) ==
    LET cm == check_mark(mf0)
        mf == cm.m
    IN  IF ~cm.go THEN [m |-> mf, out |-> out, ret |-> FALSE]
        ELSE IF mf.bytes_expected > 0 /\ Len(mf.buf) >= mf.bytes_expected
        THEN LET mark == mf.buf[1]
                 crc_ok == (mf.crc = 0)
             IN  IF mark = 254
                 THEN [m |-> mfm_reset(
                               IF crc_ok THEN latch_address(mf)
                               ELSE [mf EXCEPT !.crc_errors = @ + 1,
                                               !.have_pending_addr = FALSE]),
                       out |-> out, ret |-> FALSE]
                 ELSE IF (mark = 251 \/ mark = 250) /\ mf.have_pending_addr
                 THEN [m |-> mfm_reset(
                               [mf EXCEPT !.sectors_read = @ + 1,
                                          !.crc_errors =
                                              IF crc_ok THEN @ ELSE @ + 1,
                                          !.have_pending_addr = FALSE]),
                       out |-> report_sector(mf, out, crc_ok),
                       ret |-> TRUE]
                 ELSE [m |-> mfm_reset(mf), out |-> out, ret |-> FALSE]
        ELSE [m |-> mf, out |-> out, ret |-> FALSE]

mfm_feed(mf, delta, out) ==
    LET p == mfm_classify(mf, delta)
        quiet(x) == [m |-> x, out |-> out, ret |-> FALSE]
    IN  IF p < 0 THEN quiet(mf)
        ELSE CASE mf.state = "MFM_HUNT" ->
                    quiet(IF p = 0
                          THEN [mf EXCEPT !.short_count = (@ + 1) % 65536]
                          ELSE IF mf.short_count >= MFM_MIN_PREAMBLE
                          THEN [mf EXCEPT !.state = IF p = 1 THEN "MFM_SYNCING"
                                                    ELSE "MFM_HUNT",
                                          !.sync_stage = IF p = 1 THEN 1 ELSE 0,
                                          !.short_count = 0]
                          ELSE [mf EXCEPT !.short_count = 0])
               [] mf.state = "MFM_SYNCING" ->
                    quiet(IF p = sync_pattern[mf.sync_stage + 1]
                          THEN IF mf.sync_stage + 1 >= 15
                               THEN [mf EXCEPT
                                       !.sync_stage = @ + 1,
                                       !.syncs_found = @ + 1,
                                       !.state = "MFM_DATA",
                                       !.byte_acc = 0,
                                       !.bit_count = 0,
                                       !.buf = <<>>,
                                       !.bytes_expected = 0,
                                       !.crc = crc16_update(crc16_update(
                                               crc16_update(65535, 161),
                                               161), 161)]
                               ELSE [mf EXCEPT !.sync_stage = @ + 1]
                          ELSE [mf EXCEPT !.short_count =
                                              IF p = 0 THEN 1 ELSE @,
                                          !.state = "MFM_HUNT"])
               [] mf.state = "MFM_DATA" ->
                    check_record(
                        CASE p = 0 -> mfm_push_bit(mf, 1)
                          [] p = 1 -> [mfm_push_bit(mfm_push_bit(mf, 0), 0)
                                        EXCEPT !.state = "MFM_CLOCK"]
                          [] p = 2 -> mfm_push_bit(mfm_push_bit(mf, 0), 1),
                        out)
               [] mf.state = "MFM_CLOCK" ->
                    IF p = 2 THEN quiet(mfm_reset(mf))
                    ELSE check_record(
                        IF p = 0 THEN mfm_push_bit(mf, 0)
                        ELSE [mfm_push_bit(mf, 1) EXCEPT !.state = "MFM_DATA"],
                        out)

\* ---------------------------------------------------------------------------
\* A sector through the encoder, the flux path and the decoder
\* ---------------------------------------------------------------------------
MaxFeeds == 4000

MaxJitter == 5

MaxDriftPpm == 30000

\* The sectors of tests/test_mfm.c (payload i & 0xFF) and of
\* tests/test_robustness.c (payload 0x55), and one with the largest
\* coordinate bytes.
RoundTripSectors ==
    << [track |-> 0, side |-> 0, sector_n |-> 1,
        data |-> [i \in 1..SECTOR_SIZE |-> (i - 1) % 256]],
       [track |-> 0, side |-> 0, sector_n |-> 1,
        data |-> [i \in 1..SECTOR_SIZE |-> 85]],
       [track |-> 255, side |-> 255, sector_n |-> 255,
        data |-> [i \in 1..SECTOR_SIZE |-> 229]] >>

\* Gap bytes the caller encodes after the sector: none, one, or the ten of
\* test_roundtrip_with_jitter.
GapTails == {0, 1, 10}

RoundTripStream(s, tail) ==
    [ buf |-> mfm_encode_gap(mfm_encode_sector(mfm_encode_init, s), tail).buf,
      s |-> s, tail |-> tail, recs |-> <<>> ]

RoundTripStreams ==
    [ i \in 1..Len(RoundTripSectors), tail \in GapTails |->
        RoundTripStream(RoundTripSectors[i], tail) ]

\* What the drive hands back for a written pulse: the pulse and the PIO
\* overhead in ticks, scaled by the rate drift, plus the jitter.
flux_sim_next(pulse, ppm, jitter) ==
    LET d == ((pulse + MFM_PIO_OVERHEAD) * (1000000 + ppm)) \div 1000000 + jitter
    IN  IF d < 1 THEN 1 ELSE IF d > 65535 THEN 65535 ELSE d

\* hit is the position of the one interval the medium has damaged, 0 if none.
CodecBench(stream, ppm, pos, mf, out, ret, reports, hit) ==
    [ unit |-> "codec", stream |-> stream, ppm |-> ppm, pos |-> pos, mfm |-> mf,
      out |-> out, ret |-> ret, reports |-> reports, hit |-> hit ]

InitRoundTrip ==
    /\ m = Machine(vdisk_format_valid)
    /\ dir = ZeroDir
    /\ last = NoCall
    /\ gh = History(vdisk_format_valid)
    /\ steps = 0
    /\ \E i \in 1..Len(RoundTripSectors), tail \in GapTails,
          ppm \in {-MaxDriftPpm, 0, MaxDriftPpm} :
         bench = CodecBench(<<"roundtrip", i, tail>>, ppm, 0, mfm_init,
                            NoSector, FALSE, 0, 0)

\* ---------------------------------------------------------------------------
\* Records of any writer through the decoder
\* ---------------------------------------------------------------------------
\* A record as tests/test_mfm_size_code.c writes one: sync, mark and body, CRC
\* (a wrong one when crc_ok is false), then gap bytes.  recs keeps, for each
\* record written, what was written and the number of pulses up to the end of
\* its sync (start) and of its CRC (end).
write_record(w, it) ==
    LET bytes == <<it.mark>> \o it.body
        crc == Xor(crc16_mfm(bytes), IF it.crc_ok THEN 0 ELSE 1)
        e1 == mfm_encode_record(w.e, bytes, crc)
    IN  [ e |-> mfm_encode_gap(e1, it.gap),
          recs |-> Append(w.recs, [mark |-> it.mark, body |-> it.body,
                                   crc_ok |-> it.crc_ok,
                                   start |-> Len(mfm_encode_sync(w.e).buf),
                                   end |-> Len(e1.buf)]) ]

RECURSIVE write_records(_, _)
write_records(w, items) ==
    IF items = <<>> THEN w
    ELSE write_records(write_record(w, Head(items)), Tail(items))

DecodeStream(items) ==
    LET w == write_records([e |-> mfm_encode_init, recs |-> <<>>], items)
    IN  [ buf |-> w.e.buf, s |-> NoSector, tail |-> 0, recs |-> w.recs ]

AddressRecord(track, side, sector_n, size, crc_ok) ==
    [ mark |-> 254, body |-> <<track, side, sector_n, size>>, crc_ok |-> crc_ok,
      gap |-> 22 ]

DataRecord(mark, len, fill, crc_ok) ==
    [ mark |-> mark, body |-> [i \in 1..len |-> (fill + i) % 256],
      crc_ok |-> crc_ok, gap |-> 54 ]

DecodeStreams ==
    << \* a 128-byte sector
       DecodeStream(<<AddressRecord(3, 1, 7, 0, TRUE),
                      DataRecord(251, 128, 0, TRUE)>>),
       \* a 256-byte sector with the deleted-data mark
       DecodeStream(<<AddressRecord(4, 0, 8, 1, TRUE),
                      DataRecord(250, 256, 9, TRUE)>>),
       \* the address record of tests/test_mfm_size_code.c: size code 3
       DecodeStream(<<AddressRecord(0, 0, 1, 3, TRUE),
                      DataRecord(251, 512, 66, TRUE)>>),
       \* a data record whose CRC is wrong
       DecodeStream(<<AddressRecord(5, 1, 2, 0, TRUE),
                      DataRecord(251, 128, 0, FALSE)>>),
       \* an address record whose CRC is wrong
       DecodeStream(<<AddressRecord(6, 0, 3, 0, FALSE),
                      DataRecord(251, 128, 0, TRUE)>>),
       \* a data record with no address record before it
       DecodeStream(<<DataRecord(251, 128, 0, TRUE)>>),
       \* two address records, then one data record, then another
       DecodeStream(<<AddressRecord(7, 0, 4, 0, TRUE),
                      AddressRecord(8, 1, 5, 0, TRUE),
                      DataRecord(251, 128, 0, TRUE),
                      DataRecord(251, 128, 1, TRUE)>>),
       \* a valid address record, a broken one, then a data record
       DecodeStream(<<AddressRecord(9, 0, 6, 0, TRUE),
                      AddressRecord(10, 1, 7, 0, FALSE),
                      DataRecord(251, 128, 0, TRUE)>>),
       \* a record that is neither, between an address and its data record
       DecodeStream(<<AddressRecord(11, 1, 9, 0, TRUE),
                      DataRecord(248, 128, 0, TRUE),
                      DataRecord(251, 128, 0, TRUE)>>),
       \* the largest size code a record can carry
       DecodeStream(<<AddressRecord(1, 0, 2, 255, TRUE),
                      DataRecord(251, 512, 3, TRUE)>>) >>

InitDecode ==
    /\ m = Machine(vdisk_format_valid)
    /\ dir = ZeroDir
    /\ last = NoCall
    /\ gh = History(vdisk_format_valid)
    /\ steps = 0
    /\ \E i \in 1..Len(DecodeStreams), ppm \in {-MaxDriftPpm, 0, MaxDriftPpm} :
         bench = CodecBench(<<"decode", i, 0>>, ppm, 0, mfm_init, NoSector,
                            FALSE, 0, 0)

StreamOf(b) ==
    IF b.stream[1] = "roundtrip" THEN RoundTripStreams[b.stream[2], b.stream[3]]
    ELSE DecodeStreams[b.stream[2]]

\* The caller's loop body: the next interval of the stream goes to mfm_feed.
\* Without drift every interval carries its own jitter.
Feed(jitter) ==
    /\ bench.unit = "codec"
    /\ bench.pos < Len(StreamOf(bench).buf)
    /\ bench.ppm # 0 => jitter = 0
    /\ \E r \in {mfm_feed(bench.mfm,
                          flux_sim_next(StreamOf(bench).buf[bench.pos + 1],
                                        bench.ppm, jitter),
                          bench.out)} :
         bench' = CodecBench(bench.stream, bench.ppm, bench.pos + 1, r.m, r.out,
                             r.ret, bench.reports + (IF r.ret THEN 1 ELSE 0),
                             bench.hit)
    /\ steps' = steps + 1
    /\ UNCHANGED <<m, dir, last, gh>>

\* The intervals a damaged medium may spoil: the ninth after the sync of each
\* record.
Hits(stream) == {stream.recs[k].start + 9 : k \in DOMAIN stream.recs}

\* What a spoiled interval reads as: noise below the floor, a drop-out above
\* the ceiling, or one of the two other classes.
Spoiled(pulse) ==
    {20, 130} \cup ({48, 72, 96} \ {pulse + MFM_PIO_OVERHEAD})

\* The same loop body at the one interval the medium has damaged.
FeedDamaged(delta) ==
    /\ bench.unit = "codec"
    /\ bench.pos < Len(StreamOf(bench).buf)
    /\ bench.ppm = 0 /\ bench.hit = 0
    /\ bench.pos + 1 \in Hits(StreamOf(bench))
    /\ delta \in Spoiled(StreamOf(bench).buf[bench.pos + 1])
    /\ \E r \in {mfm_feed(bench.mfm, delta, bench.out)} :
         bench' = CodecBench(bench.stream, bench.ppm, bench.pos + 1, r.m, r.out,
                             r.ret, bench.reports + (IF r.ret THEN 1 ELSE 0),
                             bench.pos + 1)
    /\ steps' = steps + 1
    /\ UNCHANGED <<m, dir, last, gh>>

NextRoundTrip ==
    \/ steps < MaxFeeds /\ \E jitter \in (-MaxJitter)..MaxJitter : Feed(jitter)

NextDecode ==
    \/ steps < MaxFeeds /\ \E jitter \in (-MaxJitter)..MaxJitter : Feed(jitter)
    \/ steps < MaxFeeds /\ \E delta \in {20, 48, 72, 96, 130} : FeedDamaged(delta)

SpecRoundTrip == InitRoundTrip /\ [][NextRoundTrip]_vars

SpecDecode == InitDecode /\ [][NextDecode]_vars

Damaged(rec, hit) == rec.start < hit /\ hit <= rec.end

\* The address records that can be pending after the first j records of a
\* stream (0: none).  A CRC-valid address record becomes pending, a broken one
\* leaves none pending, a data record uses the pending one up, a record with
\* another mark passes by; a record hit by damage does the same or is lost.
RECURSIVE PendingAfter(_, _, _)
PendingAfter(recs, j, hit) ==
    IF j = 0 THEN {0}
    ELSE IF Damaged(recs[j], hit) THEN {0} \cup PendingAfter(recs, j - 1, hit)
    ELSE IF recs[j].mark = 254 THEN (IF recs[j].crc_ok THEN {j} ELSE {0})
    ELSE IF recs[j].mark \in {251, 250} THEN {0}
    ELSE PendingAfter(recs, j - 1, hit)

\* The data records a report at position pos can belong to: an undamaged one
\* ends there (its last bit may need the pulse after it), a damaged one is
\* under way.
ReportedRecord(recs, pos, hit) ==
    { k \in DOMAIN recs :
        /\ recs[k].mark \in {251, 250}
        /\ IF Damaged(recs[k], hit)
           THEN recs[k].start < pos /\ pos <= recs[k].end + 1
           ELSE pos \in {recs[k].end, recs[k].end + 1} }

ClampedSizeCode(size) == IF size % 4 > 2 THEN 2 ELSE size % 4

ReportMatches(k, SizeCode(_)) ==
    LET s == StreamOf(bench)
    IN  /\ \E a \in PendingAfter(s.recs, k - 1, bench.hit) \ {0} :
              /\ bench.out.track = s.recs[a].body[1]
              /\ bench.out.side = s.recs[a].body[2]
              /\ bench.out.sector_n = s.recs[a].body[3]
              /\ bench.out.size_code = SizeCode(s.recs[a].body[4])
        /\ bench.out.valid => s.recs[k].crc_ok /\ ~Damaged(s.recs[k], bench.hit)

AsWritten(size) == size

\* C16 as stated: the decoder reports a sector only at the completion of a
\* data record received while a CRC-valid address record was pending; the
\* report carries that address record's cylinder, head, sector number and size
\* code, and valid is true only if the data record's CRC check passes.
C16_ReportAsStated ==
    (bench.unit = "codec" /\ bench.stream[1] = "decode" /\ bench.ret) =>
        \E k \in ReportedRecord(StreamOf(bench).recs, bench.pos, bench.hit) :
            ReportMatches(k, AsWritten)

\* C16: the decoder reports a sector only at the completion of a data record
\* received while a CRC-valid address record was pending; the report carries
\* that address record's cylinder, head and sector number, as size code the
\* low two bits of the record's size code limited to 2, and valid is true only
\* if the data record's CRC check passes.
C16_ReportOnlyAfterAddress ==
    (bench.unit = "codec" /\ bench.stream[1] = "decode" /\ bench.ret) =>
        \E k \in ReportedRecord(StreamOf(bench).recs, bench.pos, bench.hit) :
            ReportMatches(k, ClampedSizeCode)

C16_Witness ==
    /\ bench.unit = "codec" /\ bench.stream[1] = "decode"
    /\ bench.ret /\ bench.out.valid
    /\ bench.out.size_code = 2
    /\ \E k \in ReportedRecord(StreamOf(bench).recs, bench.pos, bench.hit) :
         PendingAfter(StreamOf(bench).recs, k - 1, bench.hit) = {k - 1}

\* The whole stream has gone through the decoder.
StreamDone ==
    /\ bench.unit = "codec" /\ bench.stream[1] = "roundtrip"
    /\ bench.pos = Len(StreamOf(bench).buf)

\* The decoder has reported one sector, and it is the encoded one.
DecodedOnce ==
    /\ bench.reports = 1
    /\ bench.out.track = StreamOf(bench).s.track
    /\ bench.out.side = StreamOf(bench).s.side
    /\ bench.out.sector_n = StreamOf(bench).s.sector_n
    /\ bench.out.data = StreamOf(bench).s.data
    /\ bench.out.valid

\* C17 as stated: the pulse stream the encoder produces for a sector s, every
\* interval perturbed by at most 5 ticks or all scaled by a drift of at most
\* 3 %, makes the decoder emit exactly one sector, equal to s in coordinates and
\* payload, with valid = true.
C17_RoundTripAsStated == StreamDone => DecodedOnce

\* C17: the pulse stream the encoder produces for a sector s and at least one
\* gap byte after it, every interval perturbed by at most 5 ticks or all scaled
\* by a drift of at most 3 %, makes the decoder emit exactly one sector, equal
\* to s in coordinates and payload, with valid = true; without the gap byte the
\* decoder emits that sector or none.
C17_RoundTrip ==
    /\ (StreamDone /\ StreamOf(bench).tail > 0) => DecodedOnce
    /\ (bench.unit = "codec" /\ bench.stream[1] = "roundtrip") =>
           bench.reports = 0 \/ DecodedOnce

C17_Witness ==
    /\ StreamDone /\ DecodedOnce
    /\ StreamOf(bench).tail = 1
    /\ StreamOf(bench).s.data[1] = 85
    /\ bench.ppm = 0

(***************************************************************************)
(* Formatting a disk                                                        *)
(***************************************************************************)
MaxFormatCalls == 4

\* a volume label, "VOL"
LabelVol == <<86, 79, 76>>

\* a disk that was never formatted: stray bytes in the boot sector, in both FAT
\* copies, in the root directory and in the data area
GarbageMedia ==
  [lba \in {0, 1, 2, 9, 10, 12, 18, 19, 20, 32, 33, 34, 40} |->
     Blob({<<0, 170>>, <<1, 85>>, <<2, 170>>, <<11, 65>>, <<32, 66>>, <<511, 85>>})]

InitFormat ==
  \E media \in {vdisk_format_valid, ImageBA, GarbageMedia} :
     Unmounted(media, FALSE) \/ Mounted(media, FALSE)

NextFormat ==
  \/ steps < MaxFormatCalls /\ \E label \in {NullLabel, LabelVol}, full \in BOOLEAN : Format(label, full)
  \/ steps < MaxFormatCalls /\ Mount
  \/ steps < MaxFormatCalls /\ Unmount
  \/ steps < MaxFormatCalls /\ Open(PathA, ModeW)
  \/ steps < MaxFormatCalls /\ \E i \in Slots : Write(i, Hello)
  \/ steps < MaxFormatCalls /\ \E i \in Slots : Close(i)

SpecFormat == InitFormat /\ [][NextFormat]_vars

RECURSIVE Listing(_, _, _)
\* f12_readdir in a loop until it reports the end: the entries listed, at most n
Listing(mm, d, n) ==
  LET r == Invoke("f12_readdir", <<mm, d>>)
  IN IF n = 0 \/ r.err # F12_OK THEN <<>>
     ELSE <<r.entry>> \o Listing(r.m, r.dir, n - 1)

\* mount the media in a drive and list the root directory
ListMedia(media) ==
  LET mm == Invoke("f12_mount", <<Machine(media)>>)
      o == Invoke("f12_opendir", <<mm.m, Root, ZeroDir>>)
  IN [err |-> IF mm.err # F12_OK THEN mm.err ELSE o.err,
      fat |-> mm.m.fs.fat,
      entries |-> IF mm.err = F12_OK /\ o.err = F12_OK THEN Listing(o.m, o.dir, 4)
                  ELSE <<>>]

\* the canonical 1.44 MB geometry
CanonicalBpb ==
  [bytes_per_sector |-> 512, sectors_per_cluster |-> 1, reserved_sectors |-> 1,
   num_fats |-> 2, root_entries |-> 224, total_sectors |-> 2880,
   media_descriptor |-> 240, sectors_per_fat |-> 9, sectors_per_track |-> 18,
   num_heads |-> 2, hidden_sectors |-> 0]

\* a FAT copy in which every data cluster is free
FreeFat == [rel \in 0..8 |-> IF rel = 0 THEN FormatFat ELSE Zero]

\* C21: for any prior media contents, after a successful quick or full format the
\* media mounts with the canonical 1.44 MB geometry, the directory listing holds no
\* file (a volume label is not listed), every data cluster is free and both FAT
\* copies are identical, and a file then written is the only entry listed.
C21_FormatGivesEmptyVolume ==
  (last.op = "format" /\ last.err = F12_OK) =>
    LET l == ListMedia(m.media)
        after == ListMedia(Invoke("WithFile", <<m.media, PathA, Hello>>))
    IN /\ l.err = F12_OK
       /\ l.fat.bpb = CanonicalBpb
       /\ l.fat.total_clusters = 2847
       /\ l.entries = <<>>
       /\ FatCopy(m.media, l.fat, 0) = FreeFat
       /\ FatCopy(m.media, l.fat, 1) = FreeFat
       /\ Len(after.entries) = 1
       /\ NameMatches(after.entries[1], fat12_format_name(StripSlash(PathA)))
       /\ dirent_size(after.entries[1]) = Hello.len
       /\ ReadBack(Invoke("f12_mount", <<Machine(Invoke("WithFile", <<m.media, PathA, Hello>>))>>).m,
                   PathA)
            = [ok |-> TRUE, data |-> Hello.data, len |-> Hello.len]

\* a quick format with a label succeeded on a disk that held two files, whose data
\* sectors are still on the media
C21_Witness ==
  /\ last.op = "format" /\ last.err = F12_OK
  /\ gh.media0 = ImageBA
  /\ MediaSector(m.media, 19) # Zero
  /\ MediaSector(m.media, 33) # Zero
(***************************************************************************)
(* Appending to an existing file                                            *)
(***************************************************************************)

\* C22: after a file that exists is opened with mode "a", written and closed with
\* success, reading the path returns the content it had before the open followed by
\* the bytes written, and stat reports the sum of the two lengths.
C22_AppendKeepsContent ==
  (ClosedWriter /\ last.mode = ModeA /\ gh.content[last.slot].prior.ok) =>
    LET c == gh.content[last.slot]
        r == Invoke("ReadBack", <<m, last.path>>)
        st == Invoke("f12_stat", <<m, last.path>>)
    IN /\ r.ok
       /\ r.len = c.prior.len + c.len
       /\ r.data = Splice(c.prior.data, c.prior.len, c.data, c.len)
       /\ st.err = F12_OK
       /\ st.size = c.prior.len + c.len

(***************************************************************************)
(* Two files open for write at overlapping times                            *)
(***************************************************************************)
MaxShareCalls == 4

\* start state: mounted, after f12_open(PathA, "w") and then f12_open(PathB, "w")
MountedWithWriters(media) ==
  /\ \E mm \in {Invoke("f12_mount", <<Machine(media)>>).m} :
     \E a \in {Invoke("f12_open", <<mm, PathA, ModeW>>)} :
     \E b \in {Invoke("f12_open", <<a.m, PathB, ModeW>>)} :
       /\ a.slot = 0 /\ b.slot = 1
       /\ m = Start(b.m)
       /\ gh = [History(media) EXCEPT
                  !.content[0] = [path |-> PathA, mode |-> ModeW, data |-> Zero, len |-> 0,
                                  prior |-> Invoke("ReadBack", <<mm, PathA>>),
                                  index |-> Invoke("Located", <<mm, PathA>>).index],
                  !.content[1] = [path |-> PathB, mode |-> ModeW, data |-> Zero, len |-> 0,
                                  prior |-> Invoke("ReadBack", <<a.m, PathB>>),
                                  index |-> Invoke("Located", <<a.m, PathB>>).index]]
  /\ dir = ZeroDir
  /\ last = NoCall
  /\ steps = 0
  /\ bench = NoBench

InitShare == \E media \in {vdisk_format_valid, ImageBA} : MountedWithWriters(media)

NextShare ==
  \/ steps < MaxShareCalls /\ \E i \in {0, 1}, b \in {Hello, World} : Write(i, b)
  \/ steps < MaxShareCalls /\ \E i \in {0, 1} : Close(i)
  \/ steps < MaxShareCalls /\ \E p \in {PathA, PathB} : Delete(p)
  \/ steps < MaxShareCalls /\ \E p \in {PathA, PathC} : Open(p, ModeW)

SpecShare == InitShare /\ [][NextShare]_vars

\* the root directory entries on the media that describe a file
LiveEntries(media, fat) ==
  {i \in 0..(fat.bpb.root_entries - 1) :
     LET e == DirEntryOnMedia(media, fat, i)
     IN fat12_entry_valid(e) /\ (dirent_attr(e) \div FAT12_ATTR_VOLUME_ID) % 2 = 0}

RECURSIVE MediaChain(_, _, _, _)
\* the chain that starts at cluster, followed in FAT copy 1 on the media up to the
\* first cluster met a second time
MediaChain(media, fat, cluster, acc) ==
  IF cluster < 2 \/ fat12_is_eof(cluster) \/ fat12_is_bad(cluster) THEN acc
  ELSE IF \E k \in 1..Len(acc) : acc[k] = cluster THEN Append(acc, cluster)
  ELSE MediaChain(media, fat, FatEntryOnMedia(media, fat, 0, cluster), Append(acc, cluster))

EntryChain(media, fat, i) ==
  MediaChain(media, fat, dirent_start_cluster(DirEntryOnMedia(media, fat, i)), <<>>)

Clusters(chain) == {chain[k] : k \in 1..Len(chain)}

\* every call that writes to the volume has returned with success and no writer is open
Quiescent == m.fs.mounted /\ WriterCount(m.fs) = 0 /\ gh.clean

\* C23: when no writer is open and every close and delete succeeded, no data cluster
\* is in the chains of two live directory entries and none is twice in one chain.
C23_ChainsDisjoint ==
  Quiescent =>
    LET live == LiveEntries(m.media, m.fs.fat)
    IN /\ \A i \in live :
            LET c == EntryChain(m.media, m.fs.fat, i)
            IN Cardinality(Clusters(c)) = Len(c)
       /\ \A i, j \in live :
            i # j => Clusters(EntryChain(m.media, m.fs.fat, i))
                       \cap Clusters(EntryChain(m.media, m.fs.fat, j)) = {}

(***************************************************************************)
(* Reads while writes are pending in a batch                                *)
(***************************************************************************)

\* the sectors the next call on writer w reads back: the cluster it is filling
\* (fat12_write), the FAT sector of the entry its search for a free cluster starts at
\* (fat12_find_free_cluster_from) and its directory sector (fat12_write_root_entry)
NextReads(fat, w) ==
  LET hint == IF w.next_free_hint < 2 THEN 2 ELSE w.next_free_hint
  IN (IF w.cluster_offset > 0 /\ w.current_cluster # 0
      THEN {fat12_cluster_to_lba(fat, w.current_cluster)} ELSE {})
     \cup {fat.fat_start_sector + (hint + hint \div 2) \div SECTOR_SIZE}
     \cup {fat.root_dir_start_sector + (w.dirent_index * FAT12_DIR_ENTRY_SIZE) \div SECTOR_SIZE}

\* C24: a sector the filesystem reads on behalf of a writer (partial-cluster and
\* directory-sector read-modify-write, FAT lookup of the free-cluster search) comes
\* back with the data of the latest write to it, also when that write is still
\* pending in the writer's batch.
C24_ReadsSeePendingWrites ==
  \A i \in Slots :
    (m.fs.mounted /\ m.fs.files[i].mode = F12_MODE_WRITE) =>
      LET w == m.fs.files[i].writer
      IN \A lba \in NextReads(m.fs.fat, w) :
           BatchFind(w.batch.ents, lba) # 0 =>
             LET r == Invoke("fat12_read_sector", <<m, lba>>)
             IN r.ok /\ r.data = w.batch.ents[BatchFind(w.batch.ents, lba)].data

(***************************************************************************)
(* Writing a file whose name exists                                         *)
(***************************************************************************)

\* the live root directory entries on the media that carry path's name
EntriesNamed(media, fat, path) ==
  {i \in LiveEntries(media, fat) :
     NameMatches(DirEntryOnMedia(media, fat, i), fat12_format_name(StripSlash(path)))}

\* C25: after a name that exists was opened with mode "w", written and closed with
\* success, exactly one live root directory entry carries the name, it is at the index
\* the old entry had, and its size and chain are those of the bytes written.
C25_OverwriteReusesSlot ==
  (ClosedWriter /\ last.mode = ModeW /\ gh.content[last.slot].index # -1) =>
    LET c == gh.content[last.slot]
        named == EntriesNamed(m.media, m.fs.fat, last.path)
    IN /\ named = {c.index}
       /\ dirent_size(DirEntryOnMedia(m.media, m.fs.fat, c.index)) = c.len
       /\ Len(EntryChain(m.media, m.fs.fat, c.index)) = (c.len + SECTOR_SIZE - 1) \div SECTOR_SIZE

(***************************************************************************)
(* The write batch on its own                                               *)
(***************************************************************************)
MaxBatchCalls == 5

\* sectors 1 and 2 of track 0 side 0, one sector of track 0 side 1, one of track 1 side 0
BatchLbas == {1, 2, 19, 36}

BatchBench(op, before, batch, err) ==
  [unit |-> "batch", op |-> op, before |-> before, batch |-> batch, err |-> err]

InitBatch ==
  /\ m = Start(Invoke("f12_mount", <<Machine(ImageBA)>>).m)
  /\ dir = ZeroDir
  /\ last = NoCall
  /\ gh = History(ImageBA)
  /\ steps = 0
  /\ bench = BatchBench("init", [ents |-> <<>>, media |-> ImageBA], fat12_write_batch_init, FAT12_OK)

\* fat12_write_sector_batched with a sector image that tells the calls apart
BatchAdd(lba) ==
  /\ bench.unit = "batch"
  /\ \E r \in {Invoke("fat12_write_sector_batched",
                      <<Start(m), bench.batch, lba, Blob({<<0, steps + 1>>, <<511, lba>>})>>)} :
       /\ m' = r.m
       /\ bench' = BatchBench("add", [ents |-> bench.batch.ents, media |-> m.media], r.batch, r.err)
  /\ steps' = steps + 1
  /\ UNCHANGED <<dir, last, gh>>

BatchFlush ==
  /\ bench.unit = "batch"
  /\ \E r \in {Invoke("fat12_write_batch_flush", <<Start(m), bench.batch>>)} :
       /\ m' = r.m
       /\ bench' = BatchBench("flush", [ents |-> bench.batch.ents, media |-> m.media], r.batch, r.err)
  /\ steps' = steps + 1
  /\ UNCHANGED <<dir, last, gh>>

NextBatch ==
  \/ steps < MaxBatchCalls /\ \E lba \in BatchLbas : BatchAdd(lba)
  \/ steps < MaxBatchCalls /\ BatchFlush

SpecBatch == InitBatch /\ [][NextBatch]_vars

\* the (cylinder, head) tracks the pending entries belong to
TracksOf(fat, ents) ==
  {<<fat12_lba_to_chs(fat, ents[i].lba).c, fat12_lba_to_chs(fat, ents[i].lba).h>> :
     i \in 1..Len(ents)}

\* C26: a successful flush of a batch whose entries lie on n distinct tracks issues
\* exactly n track writes and leaves the batch empty; on the media every queued sector
\* then holds the data queued last for it and every other sector is unchanged.
C26_FlushWritesEachTrackOnce ==
  (bench.unit = "batch" /\ bench.op = "flush" /\ bench.err = FAT12_OK) =>
    LET ents == bench.before.ents
        old == bench.before.media
    IN /\ m.writes = Cardinality(TracksOf(m.fs.fat, ents))
       /\ bench.batch.ents = <<>>
       /\ \A lba \in DOMAIN m.media \cup DOMAIN old \cup BatchLbas :
            MediaSector(m.media, lba) =
              IF BatchFind(ents, lba) # 0 THEN ents[BatchFind(ents, lba)].data
              ELSE MediaSector(old, lba)

\* a flush of entries on three tracks, one sector queued twice
C26_Witness ==
  /\ bench.unit = "batch" /\ bench.op = "flush" /\ bench.err = FAT12_OK
  /\ Cardinality(TracksOf(m.fs.fat, bench.before.ents)) = 3
  /\ Len(bench.before.ents) = 4
  /\ m.writes = 3

(***************************************************************************)
(* The sector cache and the media                                           *)
(***************************************************************************)
MaxCacheCalls == 4

\* the outcomes of the track writes to come: all succeed, the first fails, the second fails
FailScripts == {<<>>, <<TRUE>>, <<FALSE, TRUE>>}

InitCache ==
  /\ \E script \in FailScripts :
       m = [Start(Invoke("f12_mount", <<Machine(ImageBA)>>).m) EXCEPT !.fails = script]
  /\ dir = ZeroDir
  /\ last = NoCall
  /\ gh = History(ImageBA)
  /\ steps = 0
  /\ bench = NoBench

NextCache ==
  \/ steps < MaxCacheCalls /\ \E md \in {ModeR, ModeW} : Open(PathA, md)
  \/ steps < MaxCacheCalls /\ \E i \in Slots : Read(i, 4)
  \/ steps < MaxCacheCalls /\ \E i \in Slots : Write(i, Hello)
  \/ steps < MaxCacheCalls /\ \E i \in Slots : Close(i)
  \/ steps < MaxCacheCalls /\ Stat(PathA)
  \/ steps < MaxCacheCalls /\ Delete(PathB)
  \/ steps < MaxCacheCalls /\ \E full \in BOOLEAN : Format(NullLabel, full)

SpecCache == InitCache /\ [][NextCache]_vars

\* C27: while the filesystem is mounted and no disk change is pending, every sector in
\* the sector cache is byte-equal to that sector on the media, also after a track write
\* or a format that failed part-way.
C27_CacheEqualsMedia ==
  (m.fs.mounted /\ ~m.dc) =>
    \A k \in 1..Len(m.fs.cache.ents) :
      m.fs.cache.ents[k].data = KeySector(m.media, m.fs.cache.ents[k].key)

(***************************************************************************)
(* Setting a FAT entry                                                      *)
(***************************************************************************)
MaxFatCalls == 2

\* the first and the last data cluster, and the entries around the two places where
\* an entry straddles a sector boundary (byte offsets 511 and 1023 of the FAT)
FatClusters == {2, 340, 341, 342, 682, 2848}

FatValues == {0, 291, 4095}

\* ImageBA with a second FAT copy in which cluster 4 is marked bad and the byte after
\* the first sector boundary differs: the two copies disagree
SkewedFat ==
  [lba \in DOMAIN ImageBA \cup {11} |->
     IF lba = 10 THEN Put(Put(ImageBA[10], 6, 247), 7, 15)
     ELSE IF lba = 11 THEN Blob({<<0, 165>>})
     ELSE ImageBA[lba]]

FatBench(cluster, value, before, err) ==
  [unit |-> "fat", op |-> "set", cluster |-> cluster, value |-> value, before |-> before,
   err |-> err]

InitFat ==
  /\ \E media \in {ImageBA, SkewedFat} :
       /\ m = Start(Invoke("f12_mount", <<Machine(media)>>).m)
       /\ gh = History(media)
  /\ dir = ZeroDir
  /\ last = NoCall
  /\ steps = 0
  /\ bench = [unit |-> "fat", op |-> "init"]

\* fat12_set_entry on an empty batch, then fat12_write_batch_flush
SetEntry(cluster, value) ==
  /\ bench.unit = "fat"
  /\ \E s \in {Invoke("fat12_set_entry", <<Start(m), fat12_write_batch_init, cluster, value>>)} :
     \E f \in {Invoke("fat12_write_batch_flush", <<s.m, s.batch>>)} :
       /\ m' = f.m
       /\ bench' = FatBench(cluster, value, m.media,
                            IF s.err # FAT12_OK THEN s.err ELSE f.err)
  /\ steps' = steps + 1
  /\ UNCHANGED <<dir, last, gh>>

NextFat ==
  \/ steps < MaxFatCalls /\ \E c \in FatClusters, v \in FatValues : SetEntry(c, v)

SpecFat == InitFat /\ [][NextFat]_vars

\* a FAT copy (its sectors by relative number) with the 12 bits of cluster's entry
\* replaced by value and every other bit kept
PutEntry(copy, cluster, value) ==
  LET off == cluster + cluster \div 2
      Byte(o) == Get(copy[o \div SECTOR_SIZE], o % SECTOR_SIZE)
      n0 == IF cluster % 2 = 1 THEN (Byte(off) % 16) + (value % 16) * 16 ELSE value % 256
      n1 == IF cluster % 2 = 1 THEN value \div 16
            ELSE (Byte(off + 1) - (Byte(off + 1) % 16)) + (value \div 256)
      With(sec, rel, o, b) == IF o \div SECTOR_SIZE = rel THEN Put(sec, o % SECTOR_SIZE, b) ELSE sec
  IN [rel \in DOMAIN copy |-> With(With(copy[rel], rel, off, n0), rel, off + 1, n1)]

\* the FAT sectors (relative numbers) that hold a byte of cluster's entry
EntrySectors(cluster) ==
  {(cluster + cluster \div 2) \div SECTOR_SIZE, (cluster + cluster \div 2 + 1) \div SECTOR_SIZE}

SetDone == bench.unit = "fat" /\ bench.op = "set" /\ bench.err = FAT12_OK

\* C28 as stated: after the entry of c is set to v and the batch is flushed, every FAT
\* copy holds v for c and is otherwise unchanged.
C28_AsStated ==
  SetDone =>
    \A f \in {0, 1} :
      FatCopy(m.media, m.fs.fat, f)
        = PutEntry(FatCopy(bench.before, m.fs.fat, f), bench.cluster, bench.value)

\* C28: after the entry of c is set to v and the batch is flushed, the entry of c reads
\* v in every FAT copy; the first copy is otherwise unchanged; in every later copy the
\* sectors that hold the entry are byte-equal to those of the first copy and the other
\* sectors are unchanged.
C28_SetEntryMirrorsFirstCopy ==
  SetDone =>
    LET new == PutEntry(FatCopy(bench.before, m.fs.fat, 0), bench.cluster, bench.value)
    IN /\ \A f \in {0, 1} : FatEntryOnMedia(m.media, m.fs.fat, f, bench.cluster) = bench.value
       /\ Invoke("fat12_get_entry", <<m, bench.cluster>>).next = bench.value
       /\ FatCopy(m.media, m.fs.fat, 0) = new
       /\ \A rel \in 0..(m.fs.fat.bpb.sectors_per_fat - 1) :
            FatCopy(m.media, m.fs.fat, 1)[rel] =
              IF rel \in EntrySectors(bench.cluster) THEN new[rel]
              ELSE FatCopy(bench.before, m.fs.fat, 1)[rel]

\* the entry of cluster 341, which lies in the last byte of the first FAT sector and
\* the first byte of the second, was set on a volume whose FAT copies agreed
C28_Witness ==
  /\ SetDone
  /\ bench.cluster = 341 /\ bench.value = 291
  /\ FatCopy(bench.before, m.fs.fat, 0) = FatCopy(bench.before, m.fs.fat, 1)
  /\ MediaSector(m.media, 2) # MediaSector(bench.before, 2)

(***************************************************************************)
(* Writers that were open when the disk was changed                         *)
(***************************************************************************)

\* C29: a call other than format that finds a disk change pending, or the filesystem
\* not mounted, issues no track write, so write, close and unmount of a file that was
\* open across the change put nothing on the new media; and after a mount no slot
\* holds a queued sector.
C29_NothingQueuedReachesNewMedia ==
  /\ (last.op \in {"mount", "unmount", "open", "read", "write", "seek", "stat", "delete",
                   "opendir", "readdir", "close"}
      /\ (last.pre.dc \/ ~last.pre.mounted)) => m.writes = 0
  /\ last.op = "mount" =>
       \A i \in Slots : ~m.fs.files[i].fs /\ m.fs.files[i].writer.batch.ents = <<>>

\* a writer with queued sectors was closed after the disk had been changed
C29_Witness ==
  /\ last.op = "close" /\ last.pre.dc /\ last.pre.mode = F12_MODE_WRITE
  /\ gh.content[last.slot].len > 0
  /\ m.fs.files[last.slot].writer.batch.ents # <<>>
  /\ m.writes = 0

(***************************************************************************)
(* Write attempts, verify reads and what the file API reports of them       *)
(***************************************************************************)
MaxVerifyCalls == 4

\* write faults of the drive when the volume is mounted: none, one lost stream,
\* every stream of the first track write lost, every stream of the first two
IoFaults == {0, 1, 3, 6}

IoWrites == 3

\* floppy_io_write on a drive with that many write faults left: whether the write
\* was reported done, and the drive after it
floppy_io_write(d, t) ==
  LET r == DriveCall("floppy_write_track", <<d, t>>)
  IN [d |-> r.d, ok |-> r.res = "FLOPPY_OK"]

\* whether each of the next n track writes fails, on a drive with faults write
\* faults left whose reads all succeed
RECURSIVE IoOutcomes(_, _, _)
IoOutcomes(d, n, k) ==
  IF k > n THEN <<>>
  ELSE LET r == floppy_io_write(Fresh(d), StagedTrack(k, 0, Sectors, k))
       IN <<~r.ok>> \o IoOutcomes(r.d, n, k + 1)

FaultyDrive(faults) ==
  floppy_init([pio_sim_init(TRUE, 0) EXCEPT !.fault_writes_remaining = faults])

\* the bytes of one whole cluster: every write call of the writer starts a cluster
OneCluster == Marked(SECTOR_SIZE, 9)

InitVerify ==
  \/ InitDrive
  \/ /\ \E faults \in IoFaults :
          /\ m = [Start(Invoke("f12_mount", <<Machine(vdisk_format_valid)>>).m)
                    EXCEPT !.fails = IoOutcomes(FaultyDrive(faults), IoWrites, 1)]
          /\ bench = [unit |-> "io", faults |-> faults]
     /\ dir = ZeroDir
     /\ last = NoCall
     /\ gh = History(vdisk_format_valid)
     /\ steps = 0

NextVerify ==
  \/ steps < MaxDriveCalls /\ \E target \in DriveTargets, staged \in StagedSets,
                                 script \in LuckScripts :
                                FloppyWriteTrack(target, staged, script)
  \/ steps < MaxVerifyCalls /\ bench.unit = "io" /\ Open(PathA, ModeW)
  \/ steps < MaxVerifyCalls /\ bench.unit = "io" /\ \E i \in Slots : Write(i, OneCluster)
  \/ steps < MaxVerifyCalls /\ bench.unit = "io" /\ \E i \in Slots : Close(i)

SpecVerify == InitVerify /\ [][NextVerify]_vars

\* the verify reads of the attempt that asserted the gate at position i
VerifyReads(tr, i) ==
  LET off == Latest({e \in GateOff(tr) : e > i /\ \A x \in GateOff(tr) : x > i => e <= x})
      next == {j \in GateOn(tr) : j > i}
  IN {r \in ReadStarts(tr) : r > off /\ \A j \in next : r < j}

\* the positions between two write attempts where the track 0 sensor was read
\* with the head on cylinder 0
AtCylinder0(tr, from, to) ==
  {k \in DOMAIN tr : from < k /\ k < to /\ tr[k].ev = "track0" /\ tr[k].arg = 0}

\* the track writes of the call just made that the drive reported failed
FailedWrites ==
  {k \in 1..m.writes : k <= Len(last.pre.fails) /\ last.pre.fails[k]}

\* C30: write_track makes at most three write attempts, each followed by one to
\* three verify reads of the same track, and stops at the first attempt whose verify
\* reads found the whole track; before the third attempt the head is taken back to
\* cylinder 0; the status is Verify exactly when three attempts were made and none
\* verified; with one write fault pending and readable media the call succeeds on
\* the second attempt with the intended track on the media; and closing a written
\* file returns an IO error exactly when a track write of the close failed, and
\* otherwise succeeds with the file reading back as written.
C30_WriteRetriesUntilVerified ==
  /\ WroteTrack =>
       LET tr == bench.d.trace
           on == GateOn(tr)
           last_on == Latest(on)
       IN /\ Cardinality(on) <= FLOPPY_WRITE_ATTEMPTS
          /\ \A i \in on :
               /\ Cardinality(VerifyReads(tr, i)) \in 1..3
               /\ i # last_on => Cardinality(VerifyReads(tr, i)) = 3
               /\ \A r \in VerifyReads(tr, i) :
                    LET s == Latest({x \in 1..r : tr[x].ev = "f.track"})
                    IN s > 0 /\ tr[s].arg = bench.t.track
          /\ bench.status = "FLOPPY_OK" => (on # {} /\ bench.verified = Sectors)
          /\ bench.status = "FLOPPY_ERR_VERIFY" <=>
               /\ Cardinality(on) = FLOPPY_WRITE_ATTEMPTS
               /\ bench.verified # Sectors
               /\ \A i \in on : Cardinality(VerifyReads(tr, i)) = 3
          /\ Cardinality(on) = FLOPPY_WRITE_ATTEMPTS =>
               LET second == Latest(on \ {last_on})
               IN AtCylinder0(tr, second, last_on) # {}
          /\ ( /\ bench.before.drive.fault_writes_remaining = 1
               /\ bench.before.drive.lucks = <<>>
               /\ ~bench.before.drive.write_protected ) =>
               /\ bench.status = "FLOPPY_OK"
               /\ Cardinality(on) = 2
               /\ \A n \in Sectors :
                    pio_sim_track(bench.d.drive, bench.t.track, bench.t.side)[n].data
                      = bench.out.sectors[n].data
  /\ (bench.unit = "io" /\ last.op = "close" /\ last.pre.mode = F12_MODE_WRITE) =>
       /\ last.err = F12_ERR_IO <=> FailedWrites # {}
       /\ FailedWrites = {} =>
            LET r == Invoke("ReadBack", <<m, last.path>>)
            IN /\ last.err = F12_OK
               /\ gh.clean =>
                    /\ r.ok
                    /\ r.len = gh.content[last.slot].len
                    /\ r.data = gh.content[last.slot].data
       /\ bench.faults < FLOPPY_WRITE_ATTEMPTS => last.err = F12_OK

\* every stream was lost: three attempts, three verify reads after each, the head
\* taken back to cylinder 0 before the third, and the call failed with Verify
C30_Witness ==
  /\ WroteTrack /\ bench.status = "FLOPPY_ERR_VERIFY"
  /\ bench.before.drive.fault_writes_remaining = 3
  /\ LET tr == bench.d.trace
     IN /\ \A i \in GateOn(tr) : Cardinality(VerifyReads(tr, i)) = 3
        /\ AtCylinder0(tr, Latest(GateOn(tr) \ {Latest(GateOn(tr))}), Latest(GateOn(tr))) # {}
        /\ AtCylinder0(tr, 0, Latest(GateOn(tr) \ {Latest(GateOn(tr))})) = {}

(***************************************************************************)
(* Reading one sector from marginal or mislabelled media                    *)
(***************************************************************************)
MaxRetryCalls == 2

\* the disk in the drive: as formatted, with cylinder 1 side 0 carrying the address
\* fields of cylinder 2, or with cylinder 40 side 1 carrying those of side 0
RetryDisks ==
  {<<>>, <<1, 0>> :> FormattedTrack(2, 0), <<40, 1>> :> FormattedTrack(40, 0)}

InitRetry ==
  /\ m = Machine(vdisk_format_valid)
  /\ dir = ZeroDir
  /\ last = NoCall
  /\ gh = History(vdisk_format_valid)
  /\ steps = 0
  /\ \E head \in {0, 40}, disk \in RetryDisks :
       LET drive == [pio_sim_init(TRUE, head) EXCEPT !.tracks = disk]
       IN bench = DriveBench("init", floppy_init(drive), floppy_init(drive), "FLOPPY_OK", 0)

NextRetry ==
  \/ steps < MaxRetryCalls /\ \E target \in DriveTargets, n \in {1, 18},
                                 script \in {NonePasses(k) : k \in 0..3} :
                                FloppyReadSector(target, n, script)

SpecRetry == InitRetry /\ [][NextRetry]_vars

ReadSector == bench.unit = "drive" /\ bench.op = "read_sector"

\* the k-th smallest member of a set of positions
RECURSIVE Nth(_, _)
Nth(set, k) ==
  LET low == CHOOSE i \in set : \A j \in set : i <= j
  IN IF k = 1 THEN low ELSE Nth(set \ {low}, k - 1)

\* between two positions of the trace the head went distance cylinders away from
\* the track and came back to it
Jogged(tr, from, to, track, distance) ==
  LET away == IF track <= distance THEN track + distance ELSE track - distance
      moves == {x \in DOMAIN tr : from < x /\ x < to /\ tr[x].ev = "f.track"}
  IN /\ \E x \in moves : tr[x].arg = away
     /\ moves # {} /\ tr[Latest(moves)].arg = track

\* C31: read_sector makes one to three read attempts and returns at the first
\* success; after an attempt that failed, whatever the failure, the head is jogged
\* (10 cylinders before the second attempt, 20 before the third) back onto the
\* target cylinder before the next attempt; an error is returned only after the
\* third attempt failed.
C31_RetriesEveryFailure ==
  ReadSector =>
    LET tr == bench.d.trace
        reads == ReadStarts(tr)
        n == Cardinality(reads)
    IN /\ n \in 1..3
       /\ bench.status # "FLOPPY_OK" => n = 3
       /\ \A k \in 2..n :
            Jogged(tr, Nth(reads, k - 1), Nth(reads, k), bench.t.track, 10 * (k - 1))

(***************************************************************************)
(* The idle timer while a call is in progress: the calls take time, and the *)
(* repeating timer runs floppy_idle_timer_callback at every full second of  *)
(* it                                                                       *)
(***************************************************************************)
MaxBusyCalls == 3

\* one turn of the disk at 300 RPM, in ms
REVOLUTION_MS == 200

BusyTarget == <<1, 0>>

\* the least time the steps of a trace take: the sleeps, and for a read pass that
\* ran out of index edges, the turns of the disk that it watched
RECURSIVE Elapsed(_, _, _)
Elapsed(tr, lo, hi) ==
  IF lo > hi THEN 0
  ELSE IF lo = hi THEN
    (IF tr[lo].ev = "sleep_ms" THEN tr[lo].arg
     ELSE IF tr[lo].ev = "ix_edges" THEN (tr[lo].arg * REVOLUTION_MS) \div 2
     ELSE 0)
  ELSE LET mid == (lo + hi) \div 2 IN Elapsed(tr, lo, mid) + Elapsed(tr, mid + 1, hi)

\* a call that was entered at d.now and took the time of its trace: the timer
\* checks that fall before its return have run
DuringCall(start, d) ==
  LET until == start + Elapsed(d.trace, 1, Len(d.trace))
  IN IF until = start THEN d
     ELSE [add_repeating_timer_ms([d EXCEPT !.now = start], until - 1) EXCEPT !.now = until]

InitBusy ==
  /\ m = Machine(vdisk_format_valid)
  /\ dir = ZeroDir
  /\ last = NoCall
  /\ gh = History(vdisk_format_valid)
  /\ steps = 0
  /\ \E faults \in WriteFaults :
       LET drive == [pio_sim_init(TRUE, 0) EXCEPT !.fault_writes_remaining = faults]
       IN bench = IdleBench("init", floppy_init(drive), floppy_init(drive), "FLOPPY_OK", 0)

BusyRead(script) ==
  /\ bench.unit = "drive"
  /\ LET sector == [track |-> BusyTarget[1], side |-> BusyTarget[2], sector_n |-> 1,
                    data |-> 0, valid |-> FALSE]
         d0 == Fresh([bench.d EXCEPT !.drive.lucks = script])
     IN \E r \in {DriveCall("floppy_read_sector", <<d0, sector>>)} :
          bench' = IdleBench("read_sector", d0, DuringCall(d0.now, r.d), r.res, d0.now)
  /\ steps' = steps + 1
  /\ UNCHANGED <<m, dir, last, gh>>

BusyReadTrack(script) ==
  /\ bench.unit = "drive"
  /\ LET t == StagedTrack(BusyTarget[1], BusyTarget[2], {}, 0)
         d0 == Fresh([bench.d EXCEPT !.drive.lucks = script])
     IN \E r \in {floppy_read_track(d0, t)} :
          bench' = IdleBench("read_track", d0, DuringCall(d0.now, r.d), r.res, d0.now)
  /\ steps' = steps + 1
  /\ UNCHANGED <<m, dir, last, gh>>

BusyWrite(staged, script) ==
  /\ bench.unit = "drive"
  /\ LET t == StagedTrack(BusyTarget[1], BusyTarget[2], staged, steps + 1)
         d0 == Fresh([bench.d EXCEPT !.drive.lucks = script])
     IN \E r \in {DriveCall("floppy_write_track", <<d0, t>>)} :
          bench' = IdleBench("write_track", d0, DuringCall(d0.now, r.d), r.res, d0.now)
  /\ steps' = steps + 1
  /\ UNCHANGED <<m, dir, last, gh>>

NextBusy ==
  \/ steps < MaxBusyCalls /\ \E ms \in IdleWaits : Elapse(ms)
  \/ steps < MaxBusyCalls /\ \E script \in {NonePasses(k) : k \in 0..3} : BusyRead(script)
  \/ steps < MaxBusyCalls /\ \E script \in {NonePasses(k) : k \in 0..3} :
                                BusyReadTrack(script)
  \/ steps < MaxBusyCalls /\ \E staged \in {{1}, Sectors}, script \in LuckScripts :
                                BusyWrite(staged, script)

SpecBusy == InitBusy /\ [][NextBusy]_vars

DriveIoCall ==
  bench.unit = "drive" /\ bench.op \in {"read_sector", "read_track", "write_track"}

\* C32: when a read_sector, read_track or write_track call returns, motor-enable and
\* drive-select are still asserted and motor_on and selected still set, whatever
\* time the call took: no timer check that fell into the call released the drive.
C32_TimerSparesCallInProgress ==
  (DriveIoCall /\ bench.status # "FLOPPY_ERR_WRITE_PROTECTED") =>
    /\ bench.d.pins["motor_enable"] = 0 /\ bench.d.pins["drive_select"] = 0
    /\ bench.d.f.motor_on /\ bench.d.f.selected

(***************************************************************************)
(* The idle timer against floppy_select, floppy_motor_on, floppy_motor_off  *)
(* and floppy_prepare, statement by statement: the timer interrupt is taken *)
(* between any two statements of the main context that run with interrupts  *)
(* enabled                                                                  *)
(***************************************************************************)
MaxIrqSteps == 10

IrqWaits == {250, 1000, 19000}

\* the main context: the statement it is at, the argument of floppy_select, the
\* statements to go on with after the return, whether interrupts are disabled;
\* bare: a line or flag was updated with interrupts enabled; torn: the timer
\* callback ran while a flag disagreed with its line
IrqBench(d, pc, arg, todo, irq_off, bare, torn) ==
  [unit |-> "irq", d |-> Fresh(d), pc |-> pc, arg |-> arg, todo |-> todo,
   irq_off |-> irq_off, bare |-> bare, torn |-> torn]

\* the flags say what the lines say
Agree(d) ==
  /\ d.f.motor_on <=> d.pins["motor_enable"] = 0
  /\ d.f.selected <=> d.pins["drive_select"] = 0

Return(b) ==
  IF b.todo = <<>> THEN [b EXCEPT !.pc = "idle"]
  ELSE [b EXCEPT !.pc = Head(b.todo), !.todo = Tail(b.todo)]

\* time passes in the main context with interrupts enabled: the timer checks that
\* fall into it run
Passing(b, ms) ==
  LET fires == LastTick(b.d.now + ms) > b.d.now
  IN [b EXCEPT !.d = Fresh(add_repeating_timer_ms(b.d, b.d.now + ms)),
               !.torn = @ \/ (fires /\ ~Agree(b.d))]

\* one statement of floppy_prepare
prepare_step(b) ==
  CASE b.pc = "prepare.if" ->
         IF ~b.d.f.auto_motor THEN Return(b) ELSE [b EXCEPT !.pc = "prepare.disable"]
    [] b.pc = "prepare.disable" -> [b EXCEPT !.irq_off = TRUE, !.pc = "prepare.stamp"]
    [] b.pc = "prepare.stamp" ->
         [b EXCEPT !.d.f.last_io_time_ms = b.d.now, !.pc = "prepare.restore"]
    [] b.pc = "prepare.restore" ->
         [b EXCEPT !.irq_off = FALSE, !.pc = "select.if", !.arg = TRUE,
                   !.todo = <<"motor_on.if">> \o @]

\* one statement of floppy_select, floppy_motor_on or floppy_motor_off
motor_step(b) ==
  CASE b.pc = "select.if" ->
         IF b.d.f.selected = b.arg THEN Return(b) ELSE [b EXCEPT !.pc = "select.put"]
    [] b.pc = "select.put" ->
         [b EXCEPT !.d = Fresh(gpio_put_oc(@, "drive_select", IF b.arg THEN 0 ELSE 1)),
                   !.bare = @ \/ ~b.irq_off, !.pc = "select.flag"]
    [] b.pc = "select.flag" ->
         [b EXCEPT !.d.f.selected = b.arg, !.bare = @ \/ ~b.irq_off, !.pc = "select.sleep"]
    [] b.pc = "select.sleep" -> Return(Passing(b, 10))
    [] b.pc = "motor_on.if" ->
         IF b.d.f.motor_on THEN Return(b) ELSE [b EXCEPT !.pc = "motor_on.put"]
    [] b.pc = "motor_on.put" ->
         [b EXCEPT !.d = Fresh(gpio_put_oc(@, "motor_enable", 0)),
                   !.bare = @ \/ ~b.irq_off, !.pc = "motor_on.flag"]
    [] b.pc = "motor_on.flag" ->
         [b EXCEPT !.d.f.motor_on = TRUE, !.bare = @ \/ ~b.irq_off, !.pc = "motor_on.sleep"]
    [] b.pc = "motor_on.sleep" -> Return(Passing(b, 750))
    [] b.pc = "motor_off.if" ->
         IF ~b.d.f.motor_on THEN Return(b) ELSE [b EXCEPT !.pc = "motor_off.put"]
    [] b.pc = "motor_off.put" ->
         [b EXCEPT !.d = Fresh(gpio_put_oc(@, "motor_enable", 1)),
                   !.bare = @ \/ ~b.irq_off, !.pc = "motor_off.flag"]
    [] b.pc = "motor_off.flag" ->
         Return([b EXCEPT !.d.f.motor_on = FALSE, !.bare = @ \/ ~b.irq_off])

InitIrq ==
  /\ m = Machine(vdisk_format_valid)
  /\ dir = ZeroDir
  /\ last = NoCall
  /\ gh = History(vdisk_format_valid)
  /\ steps = 0
  /\ bench = IrqBench(floppy_init(pio_sim_init(TRUE, 0)), "idle", FALSE, <<>>, FALSE,
                      FALSE, FALSE)

\* the main context calls a routine and runs its first statement
IrqCall(pc, arg) ==
  /\ bench.unit = "irq" /\ bench.pc = "idle"
  /\ LET b == [bench EXCEPT !.pc = pc, !.arg = arg]
     IN bench' = IF pc = "prepare.if" THEN prepare_step(b) ELSE motor_step(b)
  /\ steps' = steps + 1
  /\ UNCHANGED <<m, dir, last, gh>>

\* the main context runs its next statement
IrqStep ==
  /\ bench.unit = "irq" /\ bench.pc # "idle"
  /\ bench' = IF bench.pc \in {"prepare.if", "prepare.disable", "prepare.stamp",
                               "prepare.restore"}
                THEN prepare_step(bench) ELSE motor_step(bench)
  /\ steps' = steps + 1
  /\ UNCHANGED <<m, dir, last, gh>>

\* time passes before the next statement of the main context
IrqPass(ms) ==
  /\ bench.unit = "irq" /\ ~bench.irq_off
  /\ bench' = Passing(bench, ms)
  /\ steps' = steps + 1
  /\ UNCHANGED <<m, dir, last, gh>>

NextIrq ==
  \/ steps < MaxIrqSteps /\ \E on \in BOOLEAN : IrqCall("select.if", on)
  \/ steps < MaxIrqSteps /\ \E pc \in {"motor_on.if", "motor_off.if", "prepare.if"} :
                               IrqCall(pc, FALSE)
  \/ steps < MaxIrqSteps /\ IrqStep
  \/ steps < MaxIrqSteps /\ \E ms \in IrqWaits : IrqPass(ms)

SpecIrq == InitIrq /\ [][NextIrq]_vars

\* C33: every update of motor-enable, drive-select, motor_on and selected is made with
\* interrupts disabled; the timer callback never runs while a flag disagrees with its
\* line; and between two calls of the main context the flags agree with the lines.
C33_FlagsGuardedByCriticalSection ==
  bench.unit = "irq" =>
    /\ ~bench.bare
    /\ ~bench.torn
    /\ bench.pc = "idle" => Agree(bench.d)

(***************************************************************************)
(* Calls on a handle that was closed                                        *)
(***************************************************************************)

\* the last call was made on a handle that open had returned and close had closed
OnClosedHandle ==
  /\ last.op \in {"read", "write", "seek", "close"}
  /\ last.pre.mode = F12_MODE_CLOSED

\* C34: read, write, seek and close on a handle that has been closed fail with
\* BadHandle, write no track and leave every other slot of the file table as it was.
C34_ClosedHandleIsBadHandle ==
  OnClosedHandle =>
    /\ last.err = F12_ERR_BAD_HANDLE
    /\ m.writes = 0
    /\ \A j \in Slots \ {last.slot} : m.fs.files[j].mode = last.pre.modes[j]

(***************************************************************************)
(* Requested lengths of 65536 bytes and more                                *)
(***************************************************************************)
MaxLenCalls == 4

\* the lengths a caller asks for: a few bytes, and lengths that do not fit 16 bits
ReadLens == {4, 65536, 65540}

WriteBufs == {Hello, Marked(65536, 7), Marked(65537, 7)}

\* what the caller asked for in the last read or write, and the bytes that were left
\* between the position and the end of the file
LenBench(len, avail) == [unit |-> "len", len |-> len, avail |-> avail]

InitLen ==
  /\ m = Start(Invoke("f12_mount", <<Machine(ImageBA)>>).m)
  /\ dir = ZeroDir
  /\ last = NoCall
  /\ gh = History(ImageBA)
  /\ steps = 0
  /\ bench = LenBench(0, 0)

ReadLen(i, len) ==
  /\ m.fs.files[i].fs
  /\ \E r \in {Invoke("f12_read", <<Start(m), i, len>>)} :
        /\ m' = r.m
        /\ last' = Call("read", i, <<>>, <<>>, r.ret,
                        IF r.ret = -1 THEN r.m.fs.last_error ELSE F12_OK, r.data)
        /\ bench' = LenBench(len, m.fs.files[i].reader.file_size - m.fs.files[i].position)
        /\ steps' = steps + 1
        /\ UNCHANGED <<dir, gh>>

WriteLen(i, buf) ==
  /\ m.fs.files[i].fs
  /\ \E r \in {Invoke("f12_write", <<Start(m), i, buf.data, buf.len>>)} :
        /\ m' = r.m
        /\ last' = Call("write", i, <<>>, <<>>, r.ret,
                        IF r.ret = -1 THEN r.m.fs.last_error ELSE F12_OK, Zero)
        /\ gh' = IF r.ret <= 0 THEN gh
                 ELSE [gh EXCEPT !.content[i].data = Splice(@, gh.content[i].len, buf.data, r.ret),
                                 !.content[i].len = @ + r.ret]
        /\ bench' = LenBench(buf.len, 0)
        /\ steps' = steps + 1
        /\ UNCHANGED dir

NextLen ==
  \/ steps < MaxLenCalls /\ Open(PathA, ModeR)
  \/ steps < MaxLenCalls /\ Open(PathC, ModeW)
  \/ steps < MaxLenCalls /\ \E i \in Slots, len \in ReadLens : ReadLen(i, len)
  \/ steps < MaxLenCalls /\ \E i \in Slots, buf \in WriteBufs : WriteLen(i, buf)
  \/ steps < MaxLenCalls /\ \E i \in Slots : Close(i)

SpecLen == InitLen /\ [][NextLen]_vars

\* C35: a read that succeeds returns min(len, size - position) bytes, and a write
\* either fails or returns len, for every len, also 65536 and more.
C35_NoShortTransfer ==
  /\ (last.op = "read" /\ last.err = F12_OK /\ last.pre.mode = F12_MODE_READ) =>
       last.ret = Min(bench.len, bench.avail)
  /\ (last.op = "write" /\ last.pre.mode = F12_MODE_WRITE) =>
       (last.ret = -1 \/ last.ret = bench.len)


(***************************************************************************)
(* Chains that loop or leave the volume                                     *)
(***************************************************************************)

\* media with the entry of cluster replaced by value in both FAT copies (which start at
\* sectors 1 and 10 of the volume, as in vdisk_format_valid); cluster lies in the first
\* sector of the FAT
Relinked(media, cluster, value) ==
  [lba \in DOMAIN media |->
     IF lba \in {1, 10} THEN PutEntry([rel \in {0} |-> media[lba]], cluster, value)[0]
     ELSE media[lba]]

MaxChainCalls == 3

\* a file of three clusters (2, 3, 4) under PathA
LongA == Invoke("WithFile", <<vdisk_format_valid, PathA, Marked(3 * SECTOR_SIZE - 36, 7)>>)

FullFatSectors == 200

\* a boot sector that tells of FullFatSectors sectors per FAT copy and of a volume that
\* ends one sector before its data area starts (fat12_init makes 65535 clusters of it),
\* and a first FAT copy in which no entry is free
FullFat ==
  LET total == 1 + 2 * FullFatSectors + 14 - 1
      boot == Put(Put(Put(BootSector, 22, FullFatSectors), 19, total % 256), 20, total \div 256)
  IN [lba \in 0..FullFatSectors |->
        IF lba = 0 THEN boot ELSE [k \in 0..(SECTOR_SIZE - 1) |-> 255]]

\* the chain of PathA: intact, ending in itself, closed into a ring, leaving the volume,
\* running into a free cluster; and the volume without a free cluster
ChainMedia ==
  {LongA, Relinked(LongA, 2, 2), Relinked(LongA, 4, 2), Relinked(LongA, 3, 3000),
   Relinked(LongA, 3, 0), FullFat}

ChainChunk == 1000

\* the locals of the call in progress; seen holds the clusters the call has been at, again
\* tells that it came to one of them a second time, turns counts the turns of its loop
ChainBench(pc, op, err, index, entry, cluster, batch, seen, again, writer, open, reader) ==
  [unit |-> "chain", pc |-> pc, op |-> op, err |-> err, index |-> index, entry |-> entry,
   cluster |-> cluster, batch |-> batch, seen |-> seen, again |-> again, turns |-> 0,
   buf |-> [len |-> 0, data |-> Zero], writer |-> writer, open |-> open, reader |-> reader]

IdleChain ==
  ChainBench("idle", "none", FAT12_OK, 0, Zero, 0, fat12_write_batch_init, {}, FALSE,
             ZeroWriter, FALSE, ZeroReader)

InitChain ==
  /\ \E media \in ChainMedia :
       /\ m = Start(Invoke("f12_mount", <<Machine(media)>>).m)
       /\ gh = History(media)
  /\ dir = ZeroDir
  /\ last = NoCall
  /\ steps = 0
  /\ bench = IdleChain

\* fat12_delete and fat12_open_write, from the call to the first test of the
\* chain-freeing loop
FreeBegin(op, path) ==
  /\ bench.unit = "chain" /\ bench.pc = "idle"
  /\ \E sc \in {Invoke("ScanFor", <<m, fat12_format_name(path), 0, op>>)} :
       /\ m' = sc.m
       /\ bench' =
            IF sc.hit = "match"
            THEN [bench EXCEPT !.pc = "free", !.op = op, !.err = FAT12_OK,
                               !.index = sc.index, !.entry = sc.entry,
                               !.cluster = dirent_start_cluster(sc.entry),
                               !.batch = fat12_write_batch_init,
                               !.seen = {}, !.again = FALSE, !.turns = 0,
                               !.open = FALSE]
            ELSE IF sc.hit = "slot"
            THEN [Returned(bench, op, FAT12_OK) EXCEPT
                    !.open = TRUE, !.seen = {}, !.again = FALSE, !.turns = 0,
                    !.writer = [ZeroWriter EXCEPT !.dirent_index = sc.index,
                                  !.dirent = NewDirent(fat12_format_name(path))]]
            ELSE [Returned(bench, op, sc.err) EXCEPT
                    !.open = FALSE, !.seen = {}, !.again = FALSE, !.turns = 0]
  /\ steps' = steps + 1
  /\ UNCHANGED <<dir, last, gh>>

FreeStep ==
  /\ bench.unit = "chain" /\ bench.pc = "free"
  /\ \E r \in {Invoke("free_step", <<m, bench>>)} : m' = r.m /\ bench' = r.bench
  /\ UNCHANGED <<dir, last, gh, steps>>

\* fat12_find and fat12_open: the start of a sequential read
ReadBegin(path) ==
  /\ bench.unit = "chain" /\ bench.pc = "idle"
  /\ \E f \in {Invoke("fat12_find", <<m, path, Zero>>)} :
     \E o \in {fat12_open(f.entry, ZeroReader)} :
       /\ m' = f.m
       /\ bench' = IF f.err # FAT12_OK THEN Returned(bench, "read", f.err)
                   ELSE IF o.err # FAT12_OK THEN Returned(bench, "read", o.err)
                   ELSE [bench EXCEPT !.pc = "read", !.op = "read", !.err = FAT12_OK,
                                      !.reader = o.reader, !.seen = {}, !.again = FALSE,
                                      !.turns = 0]
  /\ steps' = steps + 1
  /\ UNCHANGED <<dir, last, gh>>

\* one fat12_read of the sequential read; the reading ends with the first call that
\* returns no byte
ReadStep ==
  /\ bench.unit = "chain" /\ bench.pc = "read"
  /\ \E r \in {Invoke("fat12_read", <<m, bench.reader, ChainChunk>>)} :
       /\ m' = r.m
       /\ bench' =
            IF ~r.ok \/ r.n = 0
            THEN Returned(bench, "read", IF r.ok THEN FAT12_OK ELSE FAT12_ERR_READ)
            ELSE [bench EXCEPT !.reader = r.reader, !.turns = @ + 1,
                               !.seen = @ \cup {bench.reader.current_cluster},
                               !.again = @ \/ r.reader.current_cluster
                                                \in bench.seen \cup {bench.reader.current_cluster}]
  /\ UNCHANGED <<dir, last, gh, steps>>

\* fat12_write on the writer fat12_open_write returned, up to the first turn of the
\* search for a free cluster when the call starts with one, else up to its return
ChainWrite(buf) ==
  /\ bench.unit = "chain" /\ bench.pc = "idle" /\ bench.open
  /\ LET w0 == bench.writer
         cluster_size == (m.fs.fat.bpb.sectors_per_cluster * SECTOR_SIZE) % 65536
     IN IF /\ cluster_size <= 64 * SECTOR_SIZE /\ buf.len % 65536 > 0
           /\ (w0.current_cluster = 0 \/ w0.cluster_offset >= cluster_size)
        THEN /\ m' = m
             /\ bench' = [bench EXCEPT !.pc = "search", !.op = "write", !.err = FAT12_OK,
                            !.buf = buf, !.turns = 0, !.seen = {}, !.again = FALSE,
                            !.cluster = IF w0.next_free_hint < 2 THEN 2
                                        ELSE w0.next_free_hint]
        ELSE \E w \in {Invoke("fat12_write", <<m, w0, buf.data, buf.len>>)} :
               /\ m' = w.m
               /\ bench' = [Returned(bench, "write",
                                     IF w.ok THEN FAT12_OK ELSE FAT12_ERR_WRITE)
                              EXCEPT !.writer = w.writer]
  /\ steps' = steps + 1
  /\ UNCHANGED <<dir, last, gh>>

\* the search for a free cluster up to the turn at which it is left or at which its
\* counter starts again from 0; once the search is left the call goes on to its return
SearchStep ==
  /\ bench.unit = "chain" /\ bench.pc = "search"
  /\ bench.turns <= m.fs.fat.total_clusters + 2
  /\ \E r \in {Invoke("search_lap", <<m, bench.cluster>>)} :
       IF r.out \/ m.fs.fat.total_clusters + 2 <= 65535
       THEN \E w \in {Invoke("fat12_write", <<m, bench.writer, bench.buf.data,
                                               bench.buf.len>>)} :
              /\ m' = w.m
              /\ bench' = [Returned(bench, "write",
                                    IF w.ok THEN FAT12_OK ELSE FAT12_ERR_WRITE)
                             EXCEPT !.writer = w.writer]
       ELSE /\ m' = r.m
            /\ bench' = [bench EXCEPT !.cluster = 0, !.turns = @ + 65536 - bench.cluster]
  /\ UNCHANGED <<dir, last, gh, steps>>

\* fat12_close_write on the writer fat12_open_write returned
ChainClose ==
  /\ bench.unit = "chain" /\ bench.pc = "idle" /\ bench.open
  /\ \E c \in {Invoke("fat12_close_write", <<m, bench.writer>>)} :
       /\ m' = c.m
       /\ bench' = [Returned(bench, "close", c.err) EXCEPT !.writer = c.writer, !.open = FALSE]
  /\ steps' = steps + 1
  /\ UNCHANGED <<dir, last, gh>>

NextChain ==
  \/ steps < MaxChainCalls /\ \E op \in {"delete", "open_write"}, p \in {PathA, PathB} :
       FreeBegin(op, p)
  \/ FreeStep
  \/ steps < MaxChainCalls /\ ReadBegin(PathA)
  \/ ReadStep
  \/ steps < MaxChainCalls /\ \E buf \in {Hello, Big} : ChainWrite(buf)
  \/ SearchStep
  \/ steps < MaxChainCalls /\ ChainClose

SpecChain == InitChain /\ [][NextChain]_vars

InCall == bench.unit = "chain" /\ bench.pc # "idle"

\* C36: every FAT-engine operation (sequential read, delete, open for write over an
\* existing name, write with free-cluster search, close) that has begun returns, also
\* when the chain it follows closes into a ring or leaves the volume: the chain-freeing
\* loop takes at most one turn per cluster of the chain and FAT12_WRITE_BATCH_MAX turns
\* more, the sequential read at most one call per byte of the file size, the search for
\* a free cluster at most one turn per cluster of the volume.
C36_EveryOperationTerminates ==
  InCall =>
    /\ bench.pc = "search" => bench.turns <= m.fs.fat.total_clusters + 2
    /\ bench.pc = "free" =>
         bench.turns <= Cardinality(bench.seen) + FAT12_WRITE_BATCH_MAX
    /\ bench.pc = "read" =>
         /\ bench.turns <= bench.reader.bytes_read
         /\ bench.reader.bytes_read <= bench.reader.file_size

(***************************************************************************)
(* The pending address of the decoder                                       *)
(***************************************************************************)

\* the pending address is that of record j of the stream
PendingIs(recs, j) ==
  /\ recs[j].mark = 254
  /\ bench.mfm.pending_track = recs[j].body[1]
  /\ bench.mfm.pending_side = recs[j].body[2]
  /\ bench.mfm.pending_sector = recs[j].body[3]

\* the last address record whose mark the decoder has been fed before record k, 0 if none
LastAddressBefore(recs, k) ==
  IF \E j \in 1..(k - 1) : recs[j].mark = 254
  THEN CHOOSE j \in 1..(k - 1) :
         recs[j].mark = 254 /\ \A i \in (j + 1)..(k - 1) : recs[i].mark # 254
  ELSE 0

\* the records the stream has brought to their end
Ended(recs, pos) == {j \in DOMAIN recs : recs[j].end + 1 <= pos}

\* C37: a pending address is set only by an address record whose CRC checks, is dropped
\* by an address record whose CRC fails and is cleared when a data record completes:
\* each address record is paired with at most one emitted sector, and a data record is
\* never paired with an address record older than the most recent address record seen.
C37_PendingFollowsAddressRecords ==
  (bench.unit = "codec" /\ bench.stream[1] = "decode") =>
    LET recs == StreamOf(bench).recs
        done == Ended(recs, bench.pos)
    IN /\ bench.mfm.have_pending_addr =>
            \E j \in DOMAIN recs :
               recs[j].crc_ok /\ recs[j].end <= bench.pos /\ PendingIs(recs, j)
       /\ \A j \in done :
            (/\ recs[j].mark = 254 /\ ~recs[j].crc_ok /\ ~Damaged(recs[j], bench.hit)
             /\ \A i \in done : i <= j)
              => ~bench.mfm.have_pending_addr
       /\ bench.ret => ~bench.mfm.have_pending_addr
       /\ bench.reports <= Cardinality({j \in DOMAIN recs :
                                          recs[j].mark = 254 /\ recs[j].start < bench.pos})
       /\ bench.ret =>
            \E k \in ReportedRecord(recs, bench.pos, bench.hit) :
               LET a == LastAddressBefore(recs, k)
               IN /\ a # 0
                  /\ bench.out.track = recs[a].body[1]
                  /\ bench.out.side = recs[a].body[2]
                  /\ bench.out.sector_n = recs[a].body[3]

\* ---------------------------------------------------------------------------
\* The mark byte after a sync
\* ---------------------------------------------------------------------------
\* The decoder is inside a record: a sync has been found and bytes are being
\* gathered.
InRecord == bench.mfm.state \in {"MFM_DATA", "MFM_CLOCK"}

\* The first byte after the sync starts a record as the format has it: the
\* address mark always, a data or deleted-data mark when an address is pending.
StartsRecord(mf) ==
    \/ mf.buf[1] = 254
    \/ mf.buf[1] \in {251, 248} /\ mf.have_pending_addr

\* C38: after a sync the first byte decides: 0xFE starts an address record,
\* 0xFB or 0xF8 starts a data record when an address is pending; a data mark
\* with no address pending and any other first byte send the decoder back to
\* hunting at once, no record body is consumed and no sector is emitted.
C38_MarkByteDispatch ==
    bench.unit = "codec" =>
      /\ InRecord /\ Len(bench.mfm.buf) >= 1 =>
           bench.mfm.bytes_expected > 0 /\ StartsRecord(bench.mfm)
      /\ ~InRecord /\ Len(bench.mfm.buf) = 1 /\ bench.mfm.bytes_expected = 0 =>
           ~StartsRecord(bench.mfm)
      /\ bench.ret => bench.mfm.buf[1] \in {251, 248}

\* ---------------------------------------------------------------------------
\* The record buffer and the size code
\* ---------------------------------------------------------------------------
\* The streams whose address record carries the largest size code.
LargeSizeCode ==
    \E k \in DOMAIN StreamOf(bench).recs :
        /\ StreamOf(bench).recs[k].mark = 254
        /\ StreamOf(bench).recs[k].body[4] = 255

\* C39: whatever the flux intervals, address records with any size code
\* included, the index into the record buffer stays within the buffer, the
\* latched size code is at most 2, and an emitted sector takes at most 512
\* payload bytes.
C39_BufferAndSizeCodeBounded ==
    bench.unit = "codec" =>
      /\ Len(bench.mfm.buf) <= MFM_BUF_SIZE
      /\ bench.mfm.bytes_expected <= MFM_BUF_SIZE
      /\ bench.mfm.pending_size_code <= 2
      /\ bench.ret =>
           /\ bench.out.size_code <= 2
           /\ bench.out.size <= SECTOR_SIZE
           /\ Len(bench.mfm.buf) - 1 <= SECTOR_SIZE + 2

\* A sector has been emitted under an address record whose size code was
\* 255.
C39_Witness ==
    /\ bench.unit = "codec"
    /\ LargeSizeCode
    /\ bench.ret
    /\ bench.mfm.pending_size_code = 2
    /\ bench.out.size = SECTOR_SIZE

\* ---------------------------------------------------------------------------
\* The thresholds and the bit cell of the stream
\* ---------------------------------------------------------------------------
\* The Short interval a drive with the rate drift ppm and no jitter delivers:
\* the bit cell a decoder measures on the preamble and on every Short after it.
MeasuredCell(ppm) == flux_sim_next(MFM_PULSE_SHORT, ppm, 0)

\* The decoder has seen a whole preamble.
Locked == bench.mfm.state # "MFM_HUNT" \/ bench.mfm.syncs_found > 0

\* C40: the thresholds follow the measured bit cell: once the preamble has
\* locked, T2_max and T3_max are the bit cell of the stream times 5/4 and 7/4,
\* and a Short of a uniformly drifted stream is never classified as Medium.
C40_ThresholdsFollowBitCell ==
    bench.unit = "codec" =>
      /\ Locked /\ bench.ppm # 0 =>
           /\ bench.mfm.T2_max = (MeasuredCell(bench.ppm) * 5) \div 4
           /\ bench.mfm.T3_max = (MeasuredCell(bench.ppm) * 7) \div 4
      /\ \A jitter \in (-MaxJitter)..MaxJitter :
           (bench.ppm # 0 => jitter = 0) =>
             mfm_classify(bench.mfm,
                          flux_sim_next(MFM_PULSE_SHORT, bench.ppm, jitter)) # 1

=============================================================================
